---- MODULE Spec2Model ----
(***************************************************************************)
(* A model of the Test-Case-Generator application:                         *)
(*   - the repository tree builder of the home page (buildFileTree),       *)
(*   - the two-phase AI generation pipeline (summaries, then test code),   *)
(*   - the workflow state machine of the home page (appState),             *)
(*   - the suite store of the test-case manager (localStorage).            *)
(*   - the repository client (createBranch, createOrUpdateFile,            *)
(*     getDefaultBranch) against a host that follows the GitHub REST API.  *)
(* Text is modelled as a sequence of one-character strings, so that        *)
(* split, toLowerCase, endsWith and the regular-expression replacements    *)
(* are computed and not assumed.                                           *)
(***************************************************************************)
EXTENDS Integers, Sequences, FiniteSets, TLC

VARIABLES
    \* ---- tree builder (page.tsx, handleRepositorySelect / buildFileTree)
    remote,          \* the host's directory listings: path -> sequence of entries
    listFailed,      \* the directory paths whose listing call failed
    treePc,          \* "idle" | "listing" | "built" | "failed"
    treeResult,      \* what buildFileTree returned
    \* ---- workflow (page.tsx, HomePage state)
    appState,
    githubApi,
    selectedRepo,
    files,
    selectedFiles,
    isLoadingFiles,
    fileContents,
    prTestCases,
    prTestSummaries,
    repoLoads,       \* handleRepositorySelect calls in flight
    contentLoads,    \* handleGenerateTests calls in flight
    lastOp,          \* the HomePage handler that ran last, and the appState it ran in
    \* ---- generation component (test-generation.tsx, TestGeneration state)
    genFiles,        \* the selectedFiles prop of the mounted component
    isGenerating,
    testSummaries,
    selectedSummaries,
    generatedTests,
    isGeneratingCode,
    sumRun,          \* the generateTestSummaries call in flight (or NoRun)
    codeRun,         \* the generateTestCode loop in flight (or NoRun)
    apiKey,          \* process.env.GEMINI_API_KEY is set
    now,             \* Date.now()
    entry,           \* the module that serves the generation calls:
                     \* "ai-service" (AIService) or "ai-actions" (the server actions)
    \* ---- suite store (test-case-manager)
    storage,         \* localStorage["testgen-suites"]
    storePc,         \* the TestCaseManager component: "unmounted", or mounted and
                     \* "seeded" / "loaded" by its mount effect, or "changed" since
    testSuites,
    selectedSuite,
    heldAtUnmount,   \* the suite list the component held when it was last unmounted,
                     \* kept until the list is changed again
    exported,        \* what the handler that ran last in the component exported:
                     \* the format, the suite and the download it started (or NoExport)
    \* ---- repository client (github-api.ts, GitHubAPI) and its host
    host,            \* the repository on the host: its branches, the file at the
                     \* path written to, and the last revision marker issued
    call             \* the GitHubAPI call in flight or last finished (or NoCall),
                     \* with the requests it sent and what the host answered

treeVars  == <<remote, listFailed, treePc, treeResult>>
flowVars  == <<appState, githubApi, selectedRepo, files, selectedFiles, isLoadingFiles,
               fileContents, prTestCases, prTestSummaries, repoLoads, contentLoads,
               lastOp>>
genVars   == <<genFiles, isGenerating, testSummaries, selectedSummaries, generatedTests,
               isGeneratingCode, sumRun, codeRun, apiKey, now, entry>>
storeVars == <<storage, storePc, testSuites, selectedSuite, heldAtUnmount, exported>>
clientVars == <<host, call>>
vars      == <<treeVars, flowVars, genVars, storeVars, clientVars>>

-----------------------------------------------------------------------------
(* Text: a string is a sequence of characters.                             *)

UpperChars == <<"A","B","C","D","E","F","G","H","I","J","K","L","M",
                "N","O","P","Q","R","S","T","U","V","W","X","Y","Z">>
LowerChars == <<"a","b","c","d","e","f","g","h","i","j","k","l","m",
                "n","o","p","q","r","s","t","u","v","w","x","y","z">>
DigitChars == {"0","1","2","3","4","5","6","7","8","9"}

\* String.prototype.toLowerCase, one character
ToLowerChar(c) ==
    IF \E i \in 1..Len(UpperChars) : UpperChars[i] = c
    THEN LowerChars[CHOOSE i \in 1..Len(UpperChars) : UpperChars[i] = c]
    ELSE c

\* String.prototype.toLowerCase
ToLowerCase(s) == [i \in 1..Len(s) |-> ToLowerChar(s[i])]

\* the regular expression class \w
IsWordChar(c) ==
    \/ \E i \in 1..Len(UpperChars) : UpperChars[i] = c \/ LowerChars[i] = c
    \/ c \in DigitChars
    \/ c = "_"

\* the regular expression class \s (the characters of it the model uses)
IsSpaceChar(c) == c \in {" ", "\n", "\t"}

\* String.prototype.split(sep) for a one-character separator: the pieces
\* between the separators, empty pieces included
RECURSIVE SplitFrom(_, _, _, _)
SplitFrom(s, sep, i, piece) ==
    IF i > Len(s) THEN <<piece>>
    ELSE IF s[i] = sep THEN <<piece>> \o SplitFrom(s, sep, i + 1, <<>>)
    ELSE SplitFrom(s, sep, i + 1, Append(piece, s[i]))

Split(s, sep) == SplitFrom(s, sep, 1, <<>>)

\* Array.prototype.pop() of a non-empty array: its last element
Pop(arr) == arr[Len(arr)]

\* String.prototype.endsWith
EndsWith(s, suffix) ==
    /\ Len(s) >= Len(suffix)
    /\ SubSeq(s, Len(s) - Len(suffix) + 1, Len(s)) = suffix

\* String.prototype.trim
RECURSIVE TrimStart(_)
TrimStart(s) ==
    IF s # <<>> /\ IsSpaceChar(Head(s)) THEN TrimStart(Tail(s)) ELSE s

RECURSIVE TrimEnd(_)
TrimEnd(s) ==
    IF s # <<>> /\ IsSpaceChar(s[Len(s)]) THEN TrimEnd(SubSeq(s, 1, Len(s) - 1)) ELSE s

Trim(s) == TrimEnd(TrimStart(s))

\* the elements of a sequence, and the sequence kept where a test holds
Range(seq) == {seq[i] : i \in 1..Len(seq)}

RECURSIVE SelectSeqOf(_, _)
SelectSeqOf(seq, keep) ==
    IF seq = <<>> THEN <<>>
    ELSE (IF Head(seq) \in keep THEN <<Head(seq)>> ELSE <<>>) \o SelectSeqOf(Tail(seq), keep)

-----------------------------------------------------------------------------
(* github-api.ts: the extension helpers.                                   *)

S_js    == <<"j","s">>
S_jsx   == <<"j","s","x">>
S_ts    == <<"t","s">>
S_tsx   == <<"t","s","x">>
S_py    == <<"p","y">>
S_java  == <<"j","a","v","a">>
S_cpp   == <<"c","p","p">>
S_c     == <<"c">>
S_cs    == <<"c","s">>
S_php   == <<"p","h","p">>
S_rb    == <<"r","b">>
S_go    == <<"g","o">>
S_rs    == <<"r","s">>
S_kt    == <<"k","t">>
S_swift == <<"s","w","i","f","t">>

testableExtensions ==
    {S_js, S_jsx, S_ts, S_tsx, S_py, S_java, S_cpp, S_c, S_cs, S_php, S_rb, S_go,
     S_rs, S_kt, S_swift}

\* filename.split(".").pop()?.toLowerCase()
FileExt(filename) == ToLowerCase(Pop(Split(filename, ".")))

isTestableFile(filename) == FileExt(filename) \in testableExtensions

\* the language map with the Ruby and JavaScript entries missing
languageMapWithoutEntries(ext) ==
    CASE ext = S_jsx   -> "React"
      [] ext = S_ts    -> "TypeScript"
      [] ext = S_tsx   -> "React"
      [] ext = S_py    -> "Python"
      [] ext = S_java  -> "Java"
      [] ext = S_cpp   -> "C++"
      [] ext = S_c     -> "C"
      [] ext = S_cs    -> "C#"
      [] ext = S_php   -> "PHP"
      [] ext = S_go    -> "Go"
      [] ext = S_rs    -> "Rust"
      [] ext = S_kt    -> "Kotlin"
      [] ext = S_swift -> "Swift"
      [] OTHER         -> "Unknown"

languageMap(ext) ==
    CASE ext = S_js    -> "JavaScript"
      [] ext = S_jsx   -> "React"
      [] ext = S_ts    -> "TypeScript"
      [] ext = S_tsx   -> "React"
      [] ext = S_py    -> "Python"
      [] ext = S_java  -> "Java"
      [] ext = S_cpp   -> "C++"
      [] ext = S_c     -> "C"
      [] ext = S_cs    -> "C#"
      [] ext = S_php   -> "PHP"
      [] ext = S_rb    -> "Ruby"
      [] ext = S_go    -> "Go"
      [] ext = S_rs    -> "Rust"
      [] ext = S_kt    -> "Kotlin"
      [] ext = S_swift -> "Swift"
      [] OTHER         -> "Unknown"

getFileLanguage(filename) == languageMap(FileExt(filename))

-----------------------------------------------------------------------------
(* The repository host, as far as the tree builder sees it.  An entry of a *)
(* directory listing is [name, path, type], type being the host's "file",  *)
(* "dir" or another kind ("symlink").  Paths are texts joined with "/".    *)

N_src  == <<"s","r","c">>
N_doc  == <<"d","o","c">>
N_lib  == <<"l","i","b">>
N_a_ts == <<"a",".","t","s">>
N_go   == <<"g","o">>
N_R_md == <<"R",".","m","d">>
N_ln   == <<"l","n">>
N_b_py == <<"b",".","p","y">>
N_c_txt == <<"c",".","t","x","t">>
N_D_JS == <<"D",".","J","S">>
N_mk   == <<"m","k">>
N_e_rb == <<"e",".","r","b">>

RootPath == <<>>

PathJoin(dir, name) == IF dir = <<>> THEN name ELSE dir \o <<"/">> \o name

Entry(dir, name, type) == [name |-> name, path |-> PathJoin(dir, name), type |-> type]

P_src == PathJoin(RootPath, N_src)
P_doc == PathJoin(RootPath, N_doc)
P_lib == PathJoin(P_src, N_lib)

\* the largest repository of the model; a run draws a part of it
FullListing(dir) ==
    CASE dir = RootPath -> <<Entry(dir, N_src, "dir"), Entry(dir, N_a_ts, "file"),
                             Entry(dir, N_doc, "dir"), Entry(dir, N_go, "file"),
                             Entry(dir, N_R_md, "file"), Entry(dir, N_ln, "symlink")>>
      [] dir = P_src    -> <<Entry(dir, N_lib, "dir"), Entry(dir, N_b_py, "file"),
                             Entry(dir, N_c_txt, "file")>>
      [] dir = P_lib    -> <<Entry(dir, N_D_JS, "file"), Entry(dir, N_mk, "file")>>
      [] dir = P_doc    -> <<Entry(dir, N_e_rb, "file")>>

DirPaths == {RootPath, P_src, P_lib, P_doc}
SubDirPaths == DirPaths \ {RootPath}

AllEntries == UNION {Range(FullListing(d)) : d \in DirPaths}

MaxEntries == 5

\* the parent directory of an entry of the full repository
ParentOf(e) == CHOOSE d \in DirPaths : e \in Range(FullListing(d))

\* a repository: the entries kept, each with its parent directory kept
Repositories ==
    {keep \in SUBSET AllEntries :
        /\ Cardinality(keep) <= MaxEntries
        /\ \A e \in keep :
              ParentOf(e) # RootPath => \E p \in keep : p.path = ParentOf(e) /\ p.type = "dir"}

ListingOf(keep) == [d \in DirPaths |-> SelectSeqOf(FullListing(d), keep)]

-----------------------------------------------------------------------------
(* page.tsx: buildFileTree.  rem is what getRepositoryContents returns for *)
(* each path, fail the paths for which it throws.                          *)

DirectoryNode(item, childTree) ==
    [name |-> item.name, path |-> item.path, type |-> "directory", children |-> childTree]

FileNode(item) ==
    [name |-> item.name, path |-> item.path, type |-> "file",
     language |-> getFileLanguage(item.name)]

\* buildFileTree with the catch block dropping the directory it could not list
RECURSIVE BuildFileTreeSkipping(_, _, _)
BuildFileTreeSkipping(rem, items, fail) ==
    IF items = <<>> THEN <<>>
    ELSE LET item == Head(items)
             pushed ==
                 IF item.type = "dir"
                 THEN IF item.path \in fail
                      THEN <<>>
                      ELSE <<DirectoryNode(item, BuildFileTreeSkipping(rem, rem[item.path], fail))>>
                 ELSE IF item.type = "file" /\ isTestableFile(item.name)
                      THEN <<FileNode(item)>>
                      ELSE <<>>
         IN  pushed \o BuildFileTreeSkipping(rem, Tail(items), fail)

RECURSIVE BuildFileTree(_, _, _)
BuildFileTree(rem, items, fail) ==
    IF items = <<>> THEN <<>>
    ELSE LET item == Head(items)
             pushed ==
                 IF item.type = "dir"
                 THEN IF item.path \in fail
                      THEN <<DirectoryNode(item, <<>>)>>
                      ELSE <<DirectoryNode(item, BuildFileTree(rem, rem[item.path], fail))>>
                 ELSE IF item.type = "file" /\ isTestableFile(item.name)
                      THEN <<FileNode(item)>>
                      ELSE <<>>
         IN  pushed \o BuildFileTree(rem, Tail(items), fail)

\* every node of a built tree, at any depth
RECURSIVE Nodes(_)
Nodes(tree) ==
    IF tree = <<>> THEN {}
    ELSE LET n == Head(tree)
         IN  {n} \cup (IF n.type = "directory" THEN Nodes(n.children) ELSE {})
                 \cup Nodes(Tail(tree))

\* the file nodes of a built tree: the catalog
FileNodes(tree) == {n \in Nodes(tree) : n.type = "file"}

-----------------------------------------------------------------------------
(* The tree builder on its own: one repository selection, for every        *)
(* repository of the model and every set of failing listing calls.         *)

TreeInit ==
    /\ remote \in {ListingOf(keep) : keep \in Repositories}
    /\ listFailed = {}
    /\ treePc = "idle"
    /\ treeResult = <<>>

\* handleRepositorySelect is called: the root listing is requested
TreeSelect ==
    /\ treePc = "idle"
    /\ treePc' = "listing"
    /\ UNCHANGED <<remote, listFailed, treeResult>>

\* the root listing throws: handleRepositorySelect catches, nothing is built
TreeRootFails ==
    /\ treePc = "listing"
    /\ treePc' = "failed"
    /\ listFailed' = {RootPath}
    /\ UNCHANGED <<remote, treeResult>>

\* the root listing succeeds and buildFileTree runs to its end; the listing
\* calls of the directories in f throw
TreeBuild ==
    /\ treePc = "listing"
    /\ \E f \in SUBSET SubDirPaths :
          /\ listFailed' = f
          /\ treeResult' = BuildFileTree(remote, remote[RootPath], f)
    /\ treePc' = "built"
    /\ UNCHANGED remote

\* another selection: the tree is rebuilt, not patched
TreeAgain ==
    /\ treePc \in {"built", "failed"}
    /\ treePc' = "idle"
    /\ listFailed' = {}
    /\ treeResult' = <<>>
    /\ UNCHANGED remote

-----------------------------------------------------------------------------
(* The AI service (ai-service: AIService, MockAIService) and the server     *)
(* actions (ai-actions.ts).                                                 *)
(*                                                                          *)
(* A reply of the AI collaborator to a summary request is either a failed   *)
(* call or a text.  The text is a sequence of tokens: prose, a code fence   *)
(* (three backquotes, with or without json after them, and the line end    *)
(* that follows), "[", "]", and JSON                                        *)
(* values that may stand in an array: an object with the summary fields it  *)
(* carries, or null.  An absent text field is Undefined, an absent number   *)
(* the empty sequence, a present number n the sequence <<n>>.               *)

Undefined == "undefined"

TProse  == [tok |-> "prose"]
TFenceJ == [tok |-> "fence-json"]
TFence  == [tok |-> "fence"]
TLB     == [tok |-> "["]
TRB     == [tok |-> "]"]
TNull   == [tok |-> "null"]

TItem(title, description, testType, priority, complexity, functionName, filePath) ==
    [tok |-> "object", title |-> title, description |-> description,
     testType |-> testType, priority |-> priority, estimatedComplexity |-> complexity,
     functionName |-> functionName, filePath |-> filePath]

\* JavaScript's a || b on a text field and on a number field
OrText(v, d) == IF v \in {Undefined, ""} THEN d ELSE v
OrNumber(v, d) == IF v = <<>> \/ v = <<0>> THEN d ELSE v[1]
Truthy(v) == v \notin {Undefined, ""}

\* the paths of the files handed to generation
P_foo_ts == <<"s","r","c","/","f","o","o",".","t","s">>
P_b_py   == <<"b",".","p","y">>
P_x_jsx  == <<"l","i","b","/","x",".","j","s","x">>

\* file.path.split("/").pop()
Basename(path) == Pop(Split(path, "/"))

\* createFallbackSummary (ai-service and ai-actions.ts are the same here)
createFallbackSummary(file, t) ==
    [id |-> <<"fallback", t>>,
     title |-> <<"Basic tests for ", Basename(file.path)>>,
     description |-> "Basic test coverage for this file",
     testType |-> "unit",
     priority |-> "medium",
     estimatedComplexity |-> 3,
     functionName |-> Undefined,
     filePath |-> file.path]

\* cleanResponse.replace(/FENCEjson\n?/g, "").replace(/FENCE\n?/g, ""), FENCE
\* being three backquotes
RemoveFences(text) == SelectSeq(text, LAMBDA tk : tk.tok \notin {"fence-json", "fence"})

\* cleanResponse.match(/\[[\s\S]*\]/): from the first "[" to the last "]" of
\* the text, when there is a "]" after the first "["; <<>> when nothing matches
JsonMatch(text) ==
    LET lbs == {i \in 1..Len(text) : text[i].tok = "["}
        rbs == {i \in 1..Len(text) : text[i].tok = "]"}
    IN  IF lbs = {} \/ rbs = {} THEN <<>>
        ELSE LET first == CHOOSE i \in lbs : \A j \in lbs : i <= j
                 last  == CHOOSE i \in rbs : \A j \in rbs : i >= j
             IN  IF last < first THEN <<>> ELSE SubSeq(text, first, last)

\* JSON.parse succeeds on a matched text when only values stand between its
\* outer brackets
JsonParses(match) ==
    \A i \in 2..(Len(match) - 1) : match[i].tok \in {"object", "null"}

\* the path the replies of the model carry in their filePath field
P_other_ts == <<"o","t","h","e","r",".","t","s">>

\* a mapping that prefers the filePath of the reply's item to the file's
MappedSummaryTrustingReply(item, index, filePath, t) ==
    [id |-> <<"gemini", t, index>>,
     title |-> <<OrText(item.title, "Generated Test")>>,
     description |-> OrText(item.description, "AI generated test case"),
     testType |-> OrText(item.testType, "unit"),
     priority |-> OrText(item.priority, "medium"),
     estimatedComplexity |-> OrNumber(item.estimatedComplexity, 3),
     functionName |-> item.functionName,
     filePath |-> IF Truthy(item.filePath) THEN P_other_ts ELSE filePath]

\* the summary parseAIResponse maps one parsed object to (index from 0)
MappedSummary(item, index, filePath, t) ==
    [id |-> <<"gemini", t, index>>,
     title |-> <<OrText(item.title, "Generated Test")>>,
     description |-> OrText(item.description, "AI generated test case"),
     testType |-> OrText(item.testType, "unit"),
     priority |-> OrText(item.priority, "medium"),
     estimatedComplexity |-> OrNumber(item.estimatedComplexity, 3),
     functionName |-> item.functionName,
     filePath |-> filePath]

\* parseAIResponse: no array in the text, a JSON.parse error and a null
\* element (item.title of null throws) all end in the catch block
parseAIResponse(text, filePath, t) ==
    LET match == JsonMatch(RemoveFences(text))
        items == SubSeq(match, 2, Len(match) - 1)
    IN  IF match = <<>> \/ ~JsonParses(match) \/ \E i \in 1..Len(items) : items[i].tok = "null"
        THEN <<createFallbackSummary([path |-> filePath, content |-> ""], t)>>
        ELSE [i \in 1..Len(items) |-> MappedSummary(items[i], i - 1, filePath, t)]

\* the loop body with nothing pushed for a file whose call or parse failed
FileSummariesWithoutFallback(file, reply, key, t) ==
    IF ~key \/ reply.kind = "fail"
    THEN <<>>
    ELSE LET parsed == parseAIResponse(reply.text, file.path, t)
         IN  IF parsed # <<>> /\ parsed[1].id[1] = "fallback" THEN <<>> ELSE parsed

\* the body of the for loop of generateTestSummaries, for one file: what is
\* pushed to summaries.  key: the access key is set (callGeminiAPI throws
\* without it, inside the try block); reply: a failed call or a text
FileSummaries(file, reply, key, t) ==
    IF ~key \/ reply.kind = "fail"
    THEN <<createFallbackSummary(file, t)>>
    ELSE parseAIResponse(reply.text, file.path, t)

-----------------------------------------------------------------------------
(* Test code.  The text of an AI reply is a sequence of characters; the     *)
(* skeletons are fixed templates, modelled by what they are filled with:    *)
(* the import (style, name, path), the describe title and the test titles.  *)

\* summary.filePath.endsWith(".ts") || summary.filePath.endsWith(".tsx")
IsTypeScript(filePath) ==
    EndsWith(filePath, <<".">> \o S_ts) \/ EndsWith(filePath, <<".">> \o S_tsx)

\* path.replace(/\.(ts|tsx|js|jsx)$/, "")
StripTsJsSuffix(path) ==
    LET sufs == {suf \in {<<".">> \o S_ts, <<".">> \o S_tsx, <<".">> \o S_js, <<".">> \o S_jsx} :
                    EndsWith(path, suf)}
    IN  IF sufs = {} THEN path
        ELSE LET suf == CHOOSE x \in sufs : TRUE
             IN  SubSeq(path, 1, Len(path) - Len(suf))

generateUnitTestCode(functionName, filePath) ==
    [kind |-> "skeleton", importStyle |-> "named", importName |-> <<functionName>>,
     importPath |-> StripTsJsSuffix(filePath),
     describe |-> <<functionName>>,
     tests |-> <<"should handle valid input correctly", "should handle edge cases",
                 "should handle invalid input">>]

\* filePath.split("/").pop()?.replace(/\.(ts|tsx|js|jsx)$/, "") || "module"
ModuleName(filePath) ==
    LET base == StripTsJsSuffix(Basename(filePath))
    IN  IF base = <<>> THEN <<"module">> ELSE base

generateIntegrationTestCode(filePath) ==
    [kind |-> "skeleton", importStyle |-> "namespace", importName |-> ModuleName(filePath),
     importPath |-> StripTsJsSuffix(filePath),
     describe |-> ModuleName(filePath) \o <<" integration tests">>,
     tests |-> <<"should work with multiple functions together",
                 "should handle complex workflows">>]

generateEdgeCaseTestCode(filePath) ==
    [kind |-> "skeleton", importStyle |-> "namespace", importName |-> ModuleName(filePath),
     importPath |-> StripTsJsSuffix(filePath),
     describe |-> ModuleName(filePath) \o <<" edge cases">>,
     tests |-> <<"should handle boundary conditions",
                 "should handle error conditions gracefully",
                 "should handle concurrent operations">>]

GeneratedTest(summary, code) ==
    [id |-> <<"test", summary.id>>, summaryId |-> summary.id, code |-> code,
     framework |-> "jest",
     language |-> IF IsTypeScript(summary.filePath) THEN "typescript" ELSE "javascript"]

\* MockAIService.generateTestCode
MockGenerateTestCode(summary) ==
    GeneratedTest(summary,
        IF summary.testType = "unit" /\ Truthy(summary.functionName)
        THEN generateUnitTestCode(summary.functionName, summary.filePath)
        ELSE IF summary.testType = "integration"
             THEN generateIntegrationTestCode(summary.filePath)
             ELSE generateEdgeCaseTestCode(summary.filePath))

\* ai-actions.ts: createFallbackTestCode
createFallbackTestCode(summary) ==
    GeneratedTest(summary,
        [kind |-> "skeleton", importStyle |-> "named",
         importName |-> <<OrText(summary.functionName, "testFunction")>>,
         importPath |-> StripTsJsSuffix(summary.filePath),
         describe |-> summary.title,
         tests |-> <<"should work correctly">>])

\* the backquote character
BQ == "BQ"

\* response.replace(/FENCE[\w]*\n?/g, ""): at three backquotes, these, the word
\* characters after it and one line end are dropped
RECURSIVE SkipWord(_, _)
SkipWord(s, i) == IF i <= Len(s) /\ IsWordChar(s[i]) THEN SkipWord(s, i + 1) ELSE i

RECURSIVE StripCodeFences(_, _)
StripCodeFences(s, i) ==
    IF i > Len(s) THEN <<>>
    ELSE IF i + 2 <= Len(s) /\ s[i] = BQ /\ s[i + 1] = BQ /\ s[i + 2] = BQ
         THEN LET j == SkipWord(s, i + 3)
                  k == IF j <= Len(s) /\ s[j] = "\n" THEN j + 1 ELSE j
              IN  StripCodeFences(s, k)
         ELSE <<s[i]>> \o StripCodeFences(s, i + 1)

\* response.replace(/FENCE[\w]*\n?/g, "").trim()
CleanCode(response) == Trim(StripCodeFences(response, 1))

\* AIService.generateTestCode: never throws
AIServiceGenerateTestCode(summary, reply, key) ==
    IF ~key \/ reply.kind = "fail"
    THEN MockGenerateTestCode(summary)
    ELSE GeneratedTest(summary, [kind |-> "ai", text |-> CleanCode(reply.text)])

\* generateTestCodeAction, the access key being set
generateTestCodeAction(summary, reply) ==
    IF reply.kind = "fail"
    THEN createFallbackTestCode(summary)
    ELSE GeneratedTest(summary, [kind |-> "ai", text |-> CleanCode(reply.text)])

-----------------------------------------------------------------------------
(* The replies of the AI collaborator the model draws from.                *)

RFail == [kind |-> "fail"]
RText(text) == [kind |-> "text", text |-> text]

ItemUnitFoo == TItem("Adds", "adds two numbers", "unit", "high", <<2>>, "foo", "other.ts")
ItemIntegration == TItem("Flow", "the functions together", "integration", "medium", <<4>>,
                         Undefined, Undefined)
ItemEmpty == TItem(Undefined, Undefined, Undefined, Undefined, <<>>, Undefined, Undefined)
ItemOdd == TItem("", "", "e2e", "urgent", <<9>>, "", Undefined)
ItemEdgeZero == TItem("Edge", "the bounds", "edge-case", "low", <<0>>, Undefined, "other.ts")

TextPlainArray == <<TLB, ItemUnitFoo, ItemIntegration, TRB>>
TextFenced     == <<TFenceJ, TLB, ItemEmpty, TRB, TFence>>
TextInProse    == <<TProse, TLB, ItemOdd, ItemEdgeZero, TRB, TProse>>
TextEmptyArray == <<TLB, TRB>>
TextNoArray    == <<TProse>>
TextBadJson    == <<TLB, TProse, TRB>>
TextTwoArrays  == <<TLB, ItemUnitFoo, TRB, TProse, TLB, ItemIntegration, TRB>>
TextNullItem   == <<TLB, TNull, ItemUnitFoo, TRB>>
TextBackwards  == <<TRB, TProse, TLB>>

\* every kind of reply to a summary request
SummaryReplies ==
    {RFail} \cup {RText(t) : t \in {TextPlainArray, TextFenced, TextInProse, TextEmptyArray,
                                    TextNoArray, TextBadJson, TextTwoArrays, TextNullItem,
                                    TextBackwards}}

\* the replies to a summary request where the code phase is what is looked at
FewSummaryReplies == {RFail, RText(TextPlainArray), RText(TextInProse)}

CodeFenced    == <<BQ,BQ,BQ,"j","s","\n","t","(",")","\n",BQ,BQ,BQ>>
CodePlain     == <<" ","t","(",")",";","\n">>
CodeOnlyFence == <<BQ,BQ,BQ,"t","s","\n",BQ,BQ,BQ,"\n">>
CodeBlank     == <<" ","\n">>

\* every kind of reply to a code request
CodeReplies == {RFail} \cup {RText(t) : t \in {CodeFenced, CodePlain, CodeOnlyFence, CodeBlank}}

\* the replies the workflow is run on
WorkSummaryReplies == {RFail, RText(TextPlainArray)}
WorkCodeReplies == {RFail, RText(CodeFenced)}

-----------------------------------------------------------------------------
(* test-generation.tsx: the TestGeneration component.  sumRun and codeRun   *)
(* are its two asynchronous handlers while they run: the values they        *)
(* captured when they were started, the position of their loop and what     *)
(* they have collected.  sumRun also keeps, file by file, the reply the AI  *)
(* call got (replies) and how many summaries the result held once the file  *)
(* was done (ends).                                                         *)

NoRun == [running |-> FALSE]
\* no summaries call in flight, one having come to its end in this component
RunOver == [running |-> FALSE, over |-> TRUE]

MaxTime == 2
MaxFiles == 2
MaxSelected == 2
MaxCodeFiles == 1

GenPaths == {P_foo_ts, P_b_py, P_x_jsx}

FileOf(path) == [path |-> path, content |-> "text"]

\* the sequences of at most n distinct elements of a set
RECURSIVE DistinctSeqs(_, _)
DistinctSeqs(S, n) ==
    IF n = 0 THEN {<<>>}
    ELSE LET shorter == DistinctSeqs(S, n - 1)
         IN  shorter \cup UNION {{Append(q, x) : x \in S \ Range(q)} : q \in shorter}

SummaryIds(summaries) == {summaries[i].id : i \in 1..Len(summaries)}

\* generateSummaries started from a button shown whatever is held
GenerateSummariesClickAnytime ==
    /\ ~isGenerating
    /\ isGenerating' = TRUE
    /\ sumRun' = [running |-> TRUE, files |-> genFiles, i |-> 1, summaries |-> <<>>,
                  replies |-> <<>>, ends |-> <<>>]
    /\ UNCHANGED <<genFiles, testSummaries, selectedSummaries, generatedTests,
                   isGeneratingCode, codeRun, apiKey, now, entry>>

\* generateSummaries is started (the button is shown while no summary is
\* held and is disabled while isGenerating)
GenerateSummariesClick ==
    /\ testSummaries = <<>>
    /\ ~isGenerating
    /\ isGenerating' = TRUE
    /\ sumRun' = [running |-> TRUE, files |-> genFiles, i |-> 1, summaries |-> <<>>,
                  replies |-> <<>>, ends |-> <<>>]
    /\ UNCHANGED <<genFiles, testSummaries, selectedSummaries, generatedTests,
                   isGeneratingCode, codeRun, apiKey, now, entry>>

\* generateTestSummariesAction without the access key: it throws before its
\* loop; generateSummaries catches and only clears isGenerating
SummariesThrow ==
    /\ sumRun.running
    /\ entry = "ai-actions" /\ ~apiKey
    /\ sumRun' = RunOver
    /\ isGenerating' = FALSE
    /\ UNCHANGED <<genFiles, testSummaries, selectedSummaries, generatedTests,
                   isGeneratingCode, codeRun, apiKey, now, entry>>

\* one turn of the for loop of generateTestSummaries /
\* generateTestSummariesAction: the next file, one AI call, its reply
SummariesStep(Replies) ==
    /\ sumRun.running
    /\ entry = "ai-actions" => apiKey
    /\ sumRun.i <= Len(sumRun.files)
    /\ \E reply \in Replies :
          LET pushed == FileSummaries(sumRun.files[sumRun.i], reply, apiKey, now)
          IN  sumRun' = [sumRun EXCEPT
                  !.i = @ + 1,
                  !.summaries = @ \o pushed,
                  !.replies = Append(@, reply),
                  !.ends = Append(@, Len(sumRun.summaries) + Len(pushed))]
    /\ UNCHANGED <<genFiles, isGenerating, testSummaries, selectedSummaries, generatedTests,
                   isGeneratingCode, codeRun, apiKey, now, entry>>

\* the call returns: generateSummaries stores the summaries and selects the
\* high priority ones
SummariesReturn ==
    /\ sumRun.running
    /\ entry = "ai-actions" => apiKey
    /\ sumRun.i > Len(sumRun.files)
    /\ testSummaries' = sumRun.summaries
    /\ selectedSummaries' =
          {sumRun.summaries[k].id : k \in {k \in 1..Len(sumRun.summaries) :
                                              sumRun.summaries[k].priority = "high"}}
    /\ isGenerating' = FALSE
    /\ sumRun' = RunOver
    /\ UNCHANGED <<genFiles, generatedTests, isGeneratingCode, codeRun, apiKey, now, entry>>

\* toggleSummarySelection
ToggleSummarySelection ==
    /\ testSummaries # <<>>
    /\ \E id \in SummaryIds(testSummaries) :
          selectedSummaries' = IF id \in selectedSummaries
                               THEN selectedSummaries \ {id}
                               ELSE selectedSummaries \cup {id}
    /\ UNCHANGED <<genFiles, isGenerating, testSummaries, generatedTests, isGeneratingCode,
                   sumRun, codeRun, apiKey, now, entry>>

\* selectAllSummaries
SelectAllSummaries ==
    /\ testSummaries # <<>>
    /\ selectedSummaries' = SummaryIds(testSummaries)
    /\ UNCHANGED <<genFiles, isGenerating, testSummaries, generatedTests, isGeneratingCode,
                   sumRun, codeRun, apiKey, now, entry>>

\* clearAllSummaries
ClearAllSummaries ==
    /\ testSummaries # <<>>
    /\ selectedSummaries' = {}
    /\ UNCHANGED <<genFiles, isGenerating, testSummaries, generatedTests, isGeneratingCode,
                   sumRun, codeRun, apiKey, now, entry>>

\* testSummaries.filter((s) => selectedSummaries.has(s.id))
SelectedSummaryList ==
    SelectSeq(testSummaries, LAMBDA sm : sm.id \in selectedSummaries)

\* generateTestCode is started (the button is disabled while nothing is
\* selected and while isGeneratingCode)
GenerateTestCodeClick ==
    /\ testSummaries # <<>>
    /\ selectedSummaries # {}
    /\ ~isGeneratingCode
    /\ Len(SelectedSummaryList) <= MaxSelected
    /\ isGeneratingCode' = TRUE
    /\ codeRun' = [running |-> TRUE, list |-> SelectedSummaryList, i |-> 1, codes |-> <<>>]
    /\ UNCHANGED <<genFiles, isGenerating, testSummaries, selectedSummaries, generatedTests,
                   sumRun, apiKey, now, entry>>

\* a loop that puts every new test in front of the earlier ones
GenerateTestCodeStepPrepending(Replies) ==
    /\ codeRun.running
    /\ codeRun.i <= Len(codeRun.list)
    /\ \E reply \in Replies :
          LET summary == codeRun.list[codeRun.i]
              pushed ==
                  IF entry = "ai-service"
                  THEN <<AIServiceGenerateTestCode(summary, reply, apiKey)>>
                  ELSE IF apiKey THEN <<generateTestCodeAction(summary, reply)>> ELSE <<>>
          IN  codeRun' = [codeRun EXCEPT !.i = @ + 1, !.codes = pushed \o @]
    /\ UNCHANGED <<genFiles, isGenerating, testSummaries, selectedSummaries, generatedTests,
                   isGeneratingCode, sumRun, apiKey, now, entry>>

\* one turn of the for loop of generateTestCode: the next summary, one call
\* of the code generator; what the generator throws is caught and logged
GenerateTestCodeStep(Replies) ==
    /\ codeRun.running
    /\ codeRun.i <= Len(codeRun.list)
    /\ \E reply \in Replies :
          LET summary == codeRun.list[codeRun.i]
              pushed ==
                  IF entry = "ai-service"
                  THEN <<AIServiceGenerateTestCode(summary, reply, apiKey)>>
                  ELSE IF apiKey THEN <<generateTestCodeAction(summary, reply)>> ELSE <<>>
          IN  codeRun' = [codeRun EXCEPT !.i = @ + 1, !.codes = @ \o pushed]
    /\ UNCHANGED <<genFiles, isGenerating, testSummaries, selectedSummaries, generatedTests,
                   isGeneratingCode, sumRun, apiKey, now, entry>>

\* the loop is over: the generated tests are stored
GenerateTestCodeEnd ==
    /\ codeRun.running
    /\ codeRun.i > Len(codeRun.list)
    /\ generatedTests' = codeRun.codes
    /\ isGeneratingCode' = FALSE
    /\ codeRun' = NoRun
    /\ UNCHANGED <<genFiles, isGenerating, testSummaries, selectedSummaries, sumRun,
                   apiKey, now, entry>>

\* time passes
Tick ==
    /\ now < MaxTime
    /\ now' = now + 1
    /\ UNCHANGED <<genFiles, isGenerating, testSummaries, selectedSummaries, generatedTests,
                   isGeneratingCode, sumRun, codeRun, apiKey, entry>>

\* the component as mounted, with nothing generated yet
GenFresh ==
    /\ isGenerating = FALSE
    /\ testSummaries = <<>>
    /\ selectedSummaries = {}
    /\ generatedTests = <<>>
    /\ isGeneratingCode = FALSE
    /\ sumRun = NoRun
    /\ codeRun = NoRun

\* the component mounted on any files, served by either module, with or
\* without the access key
GenInitAny(n) ==
    /\ genFiles \in {[i \in 1..Len(q) |-> FileOf(q[i])] : q \in DistinctSeqs(GenPaths, n)}
    /\ GenFresh
    /\ apiKey \in BOOLEAN
    /\ entry \in {"ai-service", "ai-actions"}
    /\ now = 0

-----------------------------------------------------------------------------
(* page.tsx: HomePage, the workflow.  A handler runs on the state of the  *)
(* render it was created in; what it awaits is a step of its own: a       *)
(* handleRepositorySelect or handleGenerateTests call in flight is held   *)
(* in repoLoads / contentLoads until its requests are answered.           *)

NoApi == "null"
NoRepo == "null"
Op(name) == [name |-> name, from |-> appState]

MaxPending == 1

\* the repository the workflow is run on
WorkRepository ==
    {Entry(RootPath, N_src, "dir"), Entry(RootPath, N_a_ts, "file"),
     Entry(P_src, N_c_txt, "file"), Entry(RootPath, N_R_md, "file")}

\* a second repository of the account, listed by <RepositorySelector/> too
OtherRepository == {Entry(RootPath, N_R_md, "file")}

RepositoryNames == {"owner/repo", "owner/other"}
RepositoryOf(repo) == IF repo = "owner/repo" THEN WorkRepository ELSE OtherRepository

\* the calls in flight but the i-th
WithoutLoad(loads, i) ==
    [k \in 1..(Len(loads) - 1) |-> IF k < i THEN loads[k] ELSE loads[k + 1]]

FlowInit ==
    /\ appState = "landing"
    /\ githubApi = NoApi
    /\ selectedRepo = NoRepo
    /\ files = <<>>
    /\ selectedFiles = <<>>
    /\ isLoadingFiles = FALSE
    /\ fileContents = <<>>
    /\ prTestCases = <<>>
    /\ prTestSummaries = <<>>
    /\ repoLoads = <<>>
    /\ contentLoads = <<>>
    /\ lastOp = [name |-> "none", from |-> "landing"]

GenInit ==
    /\ genFiles = <<>>
    /\ GenFresh
    /\ apiKey = TRUE
    /\ now = 0
    /\ entry = "ai-service"

\* a TestGeneration whose state is held by HomePage and outlives its unmount
TestGenerationRenderedKeeping(newAppState, newFileContents) ==
    /\ genFiles' = newFileContents
    /\ UNCHANGED <<isGenerating, testSummaries, selectedSummaries, generatedTests,
                   isGeneratingCode, sumRun, codeRun>>
    /\ UNCHANGED <<apiKey, now, entry>>

\* <TestGeneration selectedFiles={fileContents} .../> is rendered while
\* appState is "test-generation": its state is kept while it stays
\* rendered and starts afresh when it is rendered again
TestGenerationRendered(newAppState, newFileContents) ==
    /\ genFiles' = newFileContents
    /\ IF appState = "test-generation" /\ newAppState = "test-generation"
       THEN UNCHANGED <<isGenerating, testSummaries, selectedSummaries, generatedTests,
                        isGeneratingCode, sumRun, codeRun>>
       ELSE /\ isGenerating' = FALSE
            /\ testSummaries' = <<>>
            /\ selectedSummaries' = {}
            /\ generatedTests' = <<>>
            /\ isGeneratingCode' = FALSE
            /\ sumRun' = NoRun
            /\ codeRun' = NoRun
    /\ UNCHANGED <<apiKey, now, entry>>

\* the landing page's button: setAppState("auth")
GetStarted ==
    /\ appState = "landing"
    /\ appState' = "auth"
    /\ lastOp' = Op("getStarted")
    /\ UNCHANGED <<githubApi, selectedRepo, files, selectedFiles, isLoadingFiles,
                   fileContents, prTestCases, prTestSummaries, repoLoads, contentLoads>>
    /\ TestGenerationRendered("auth", fileContents)

\* handleAuthentication, called by <GitHubAuth/>
HandleAuthentication ==
    /\ appState = "auth"
    /\ githubApi' = "api"
    /\ appState' = "repo-select"
    /\ lastOp' = Op("handleAuthentication")
    /\ UNCHANGED <<selectedRepo, files, selectedFiles, isLoadingFiles,
                   fileContents, prTestCases, prTestSummaries, repoLoads, contentLoads>>
    /\ TestGenerationRendered("repo-select", fileContents)

\* handleRepositorySelect up to its first await, called by
\* <RepositorySelector/> (rendered in "repo-select" with a client held)
handleRepositorySelect(repo, pending) ==
    /\ appState = "repo-select" /\ githubApi # NoApi
    /\ Len(repoLoads) + Len(contentLoads) < pending
    /\ selectedRepo' = repo
    /\ isLoadingFiles' = TRUE
    /\ repoLoads' = Append(repoLoads, repo)
    /\ lastOp' = Op("handleRepositorySelect")
    /\ UNCHANGED <<appState, githubApi, files, selectedFiles, fileContents, prTestCases,
                   prTestSummaries, contentLoads>>
    /\ TestGenerationRendered(appState, fileContents)

\* a click on the card of the repository the workflow is run on
HandleRepositorySelect == handleRepositorySelect("owner/repo", MaxPending)

\* handleRepositorySelect after its awaits, the root listing answered: the
\* tree is built (the listings of the directories in f throw) and shown
RepositoryLoaded ==
    \E i \in 1..Len(repoLoads) :
    /\ \E f \in SUBSET {P_src} :
          files' = BuildFileTree(ListingOf(RepositoryOf(repoLoads[i])),
                                 ListingOf(RepositoryOf(repoLoads[i]))[RootPath], f)
    /\ appState' = "file-browser"
    /\ isLoadingFiles' = FALSE
    /\ repoLoads' = WithoutLoad(repoLoads, i)
    /\ lastOp' = Op("handleRepositorySelect.loaded")
    /\ UNCHANGED <<githubApi, selectedRepo, selectedFiles, fileContents, prTestCases,
                   prTestSummaries, contentLoads>>
    /\ TestGenerationRendered("file-browser", fileContents)

\* a failed root listing that shows the file browser all the same
RepositoryLoadFailedEntering ==
    \E i \in 1..Len(repoLoads) :
    /\ appState' = "file-browser"
    /\ isLoadingFiles' = FALSE
    /\ repoLoads' = WithoutLoad(repoLoads, i)
    /\ lastOp' = Op("handleRepositorySelect.failed")
    /\ UNCHANGED <<githubApi, selectedRepo, files, selectedFiles, fileContents,
                   prTestCases, prTestSummaries, contentLoads>>
    /\ TestGenerationRendered("file-browser", fileContents)

\* handleRepositorySelect after its await, the root listing throwing: the
\* catch block logs, the finally block clears isLoadingFiles
RepositoryLoadFailed ==
    \E i \in 1..Len(repoLoads) :
    /\ isLoadingFiles' = FALSE
    /\ repoLoads' = WithoutLoad(repoLoads, i)
    /\ lastOp' = Op("handleRepositorySelect.failed")
    /\ UNCHANGED <<appState, githubApi, selectedRepo, files, selectedFiles, fileContents,
                   prTestCases, prTestSummaries, contentLoads>>
    /\ TestGenerationRendered(appState, fileContents)

\* <FileBrowser/> is rendered
FileBrowserRendered == appState = "file-browser" /\ ~isLoadingFiles

\* handleFileSelect, called by a file's checkbox with its new checked state
HandleFileSelect ==
    /\ FileBrowserRendered
    /\ \E n \in FileNodes(files) :
          selectedFiles' =
              IF n.path \notin Range(selectedFiles)
              THEN Append(selectedFiles, n.path)
              ELSE SelectSeq(selectedFiles, LAMBDA path : path # n.path)
    /\ lastOp' = Op("handleFileSelect")
    /\ UNCHANGED <<appState, githubApi, selectedRepo, files, isLoadingFiles, fileContents,
                   prTestCases, prTestSummaries, repoLoads, contentLoads>>
    /\ TestGenerationRendered(appState, fileContents)

\* handleFileSelect(filePath, selected) of one render: the value it hands to
\* setSelectedFiles, made from the selectedFiles that render captured
handleFileSelect(captured, filePath, selected) ==
    IF selected THEN Append(captured, filePath)
    ELSE SelectSeq(captured, LAMBDA path : path # filePath)

\* file-browser.tsx, allFiles: the files of the tree, in the order of the tree
RECURSIVE ExtractFiles(_)
ExtractFiles(items) ==
    IF items = <<>> THEN <<>>
    ELSE LET item == Head(items)
         IN  (IF item.type = "file" THEN <<item>> ELSE ExtractFiles(item.children))
                 \o ExtractFiles(Tail(items))

\* setSelectedFiles called once per call of calls within one event, each
\* value made from the same captured list: the state is the last value set
RECURSIVE AfterCalls(_, _, _, _)
AfterCalls(state, captured, calls, selected) ==
    IF calls = <<>> THEN state
    ELSE AfterCalls(handleFileSelect(captured, Head(calls), selected), captured,
                    Tail(calls), selected)

\* selectAllFiles, the Select All button (disabled when all are selected)
SelectAllFiles ==
    /\ FileBrowserRendered
    /\ Len(selectedFiles) # Len(ExtractFiles(files))
    /\ LET allFilePaths == [k \in 1..Len(ExtractFiles(files)) |-> ExtractFiles(files)[k].path]
           calls == SelectSeq(allFilePaths, LAMBDA path : path \notin Range(selectedFiles))
       IN  selectedFiles' = AfterCalls(selectedFiles, selectedFiles, calls, TRUE)
    /\ lastOp' = Op("selectAllFiles")
    /\ UNCHANGED <<appState, githubApi, selectedRepo, files, isLoadingFiles, fileContents,
                   prTestCases, prTestSummaries, repoLoads, contentLoads>>
    /\ TestGenerationRendered(appState, fileContents)

\* clearAllFiles, the Clear All button (disabled when nothing is selected)
ClearAllFiles ==
    /\ FileBrowserRendered
    /\ Len(selectedFiles) # 0
    /\ selectedFiles' = AfterCalls(selectedFiles, selectedFiles, selectedFiles, FALSE)
    /\ lastOp' = Op("clearAllFiles")
    /\ UNCHANGED <<appState, githubApi, selectedRepo, files, isLoadingFiles, fileContents,
                   prTestCases, prTestSummaries, repoLoads, contentLoads>>
    /\ TestGenerationRendered(appState, fileContents)

\* handleGenerateTests up to its first await, called by the Generate Tests
\* button of <FileBrowser/> (disabled while nothing is selected)
HandleGenerateTests ==
    /\ FileBrowserRendered
    /\ selectedFiles # <<>>
    /\ ~(githubApi = NoApi \/ selectedRepo = NoRepo \/ Len(selectedFiles) = 0)
    /\ Len(repoLoads) + Len(contentLoads) < MaxPending
    /\ contentLoads' = Append(contentLoads, selectedFiles)
    /\ lastOp' = Op("handleGenerateTests")
    /\ UNCHANGED <<appState, githubApi, selectedRepo, files, selectedFiles, isLoadingFiles,
                   fileContents, prTestCases, prTestSummaries, repoLoads>>
    /\ TestGenerationRendered(appState, fileContents)

\* what the loop of handleGenerateTests has pushed: the selected files whose
\* getFileContent call did not throw
ContentsOf(selection, failing) ==
    LET read == SelectSeq(selection, LAMBDA path : path \notin failing)
    IN  [k \in 1..Len(read) |-> FileOf(read[k])]

\* a loop that the first failed read ends
ContentsUntilFailure(selection, failing) ==
    LET failed == {k \in 1..Len(selection) : selection[k] \in failing}
        last == IF failed = {} THEN Len(selection)
                ELSE (CHOOSE k \in failed : \A m \in failed : k <= m) - 1
    IN  [k \in 1..last |-> FileOf(selection[k])]

\* handleGenerateTests after its awaits, the first failed read having ended
\* its loop
ContentsLoadedUntilFailure ==
    /\ \E i \in 1..Len(contentLoads) :
          /\ \E failing \in SUBSET Range(contentLoads[i]) :
                LET contents == ContentsUntilFailure(contentLoads[i], failing)
                IN  /\ fileContents' = contents
                    /\ lastOp' = [name |-> "handleGenerateTests.loaded", from |-> appState,
                                  selection |-> contentLoads[i], failing |-> failing]
                    /\ TestGenerationRendered("test-generation", contents)
          /\ contentLoads' = [k \in 1..(Len(contentLoads) - 1) |->
                                 IF k < i THEN contentLoads[k] ELSE contentLoads[k + 1]]
    /\ appState' = "test-generation"
    /\ UNCHANGED <<githubApi, selectedRepo, files, selectedFiles, isLoadingFiles,
                   prTestCases, prTestSummaries, repoLoads>>

\* handleGenerateTests after its awaits: the contents of the files whose
\* getFileContent call threw (failing) are left out; lastOp keeps the
\* selection the call was started on and the reads that failed
ContentsLoaded ==
    /\ \E i \in 1..Len(contentLoads) :
          /\ \E failing \in SUBSET Range(contentLoads[i]) :
                LET contents == ContentsOf(contentLoads[i], failing)
                IN  /\ fileContents' = contents
                    /\ lastOp' = [name |-> "handleGenerateTests.loaded", from |-> appState,
                                  selection |-> contentLoads[i], failing |-> failing]
                    /\ TestGenerationRendered("test-generation", contents)
          /\ contentLoads' = [k \in 1..(Len(contentLoads) - 1) |->
                                 IF k < i THEN contentLoads[k] ELSE contentLoads[k + 1]]
    /\ appState' = "test-generation"
    /\ UNCHANGED <<githubApi, selectedRepo, files, selectedFiles, isLoadingFiles,
                   prTestCases, prTestSummaries, repoLoads>>

\* handleBack with the file tree kept when leaving the file browser
HandleBackKeepingFiles ==
    /\ appState # "landing"
    /\ appState' = CASE appState = "repo-select" -> "landing"
                     [] appState = "file-browser" -> "repo-select"
                     [] appState = "test-generation" -> "file-browser"
                     [] appState \in {"test-management", "pr-creation"} -> "test-generation"
                     [] OTHER -> appState
    /\ githubApi' = IF appState = "repo-select" THEN NoApi ELSE githubApi
    /\ selectedRepo' = IF appState = "file-browser" THEN NoRepo ELSE selectedRepo
    /\ files' = files
    /\ selectedFiles' = IF appState = "file-browser" THEN <<>> ELSE selectedFiles
    /\ lastOp' = Op("handleBack")
    /\ UNCHANGED <<isLoadingFiles, fileContents, prTestCases, prTestSummaries, repoLoads,
                   contentLoads>>
    /\ TestGenerationRendered(appState', fileContents)

\* handleBack with the client kept when leaving the repository selection
HandleBackKeepingApi ==
    /\ appState # "landing"
    /\ appState' = CASE appState = "repo-select" -> "landing"
                     [] appState = "file-browser" -> "repo-select"
                     [] appState = "test-generation" -> "file-browser"
                     [] appState \in {"test-management", "pr-creation"} -> "test-generation"
                     [] OTHER -> appState
    /\ githubApi' = githubApi
    /\ selectedRepo' = IF appState = "file-browser" THEN NoRepo ELSE selectedRepo
    /\ files' = IF appState = "file-browser" THEN <<>> ELSE files
    /\ selectedFiles' = IF appState = "file-browser" THEN <<>> ELSE selectedFiles
    /\ lastOp' = Op("handleBack")
    /\ UNCHANGED <<isLoadingFiles, fileContents, prTestCases, prTestSummaries, repoLoads,
                   contentLoads>>
    /\ TestGenerationRendered(appState', fileContents)

\* handleBack with PR creation left for the test management
HandleBackToManagement ==
    /\ appState # "landing"
    /\ appState' = CASE appState = "repo-select" -> "landing"
                     [] appState = "file-browser" -> "repo-select"
                     [] appState = "test-generation" -> "file-browser"
                     [] appState = "test-management" -> "test-generation"
                     [] appState = "pr-creation" -> "test-management"
                     [] OTHER -> appState
    /\ githubApi' = IF appState = "repo-select" THEN NoApi ELSE githubApi
    /\ selectedRepo' = IF appState = "file-browser" THEN NoRepo ELSE selectedRepo
    /\ files' = IF appState = "file-browser" THEN <<>> ELSE files
    /\ selectedFiles' = IF appState = "file-browser" THEN <<>> ELSE selectedFiles
    /\ lastOp' = Op("handleBack")
    /\ UNCHANGED <<isLoadingFiles, fileContents, prTestCases, prTestSummaries, repoLoads,
                   contentLoads>>
    /\ TestGenerationRendered(appState', fileContents)

\* handleBack, called by the header's arrow (rendered outside "landing") and
\* by the Back buttons of the components; "auth" has no case in its switch
HandleBack ==
    /\ appState # "landing"
    /\ appState' = CASE appState = "repo-select" -> "landing"
                     [] appState = "file-browser" -> "repo-select"
                     [] appState = "test-generation" -> "file-browser"
                     [] appState \in {"test-management", "pr-creation"} -> "test-generation"
                     [] OTHER -> appState
    /\ githubApi' = IF appState = "repo-select" THEN NoApi ELSE githubApi
    /\ selectedRepo' = IF appState = "file-browser" THEN NoRepo ELSE selectedRepo
    /\ files' = IF appState = "file-browser" THEN <<>> ELSE files
    /\ selectedFiles' = IF appState = "file-browser" THEN <<>> ELSE selectedFiles
    /\ lastOp' = Op("handleBack")
    /\ UNCHANGED <<isLoadingFiles, fileContents, prTestCases, prTestSummaries, repoLoads,
                   contentLoads>>
    /\ TestGenerationRendered(appState', fileContents)

\* handleManageTests, called by the Manage Tests button of <TestGeneration/>
\* (rendered once tests are generated)
HandleManageTests ==
    /\ appState = "test-generation"
    /\ Len(generatedTests) > 0
    /\ appState' = "test-management"
    /\ lastOp' = Op("handleManageTests")
    /\ UNCHANGED <<githubApi, selectedRepo, files, selectedFiles, isLoadingFiles,
                   fileContents, prTestCases, prTestSummaries, repoLoads, contentLoads>>
    /\ TestGenerationRendered("test-management", fileContents)

\* handleCreatePR
HandleCreatePR(testCases, summaries) ==
    /\ prTestCases' = testCases
    /\ prTestSummaries' = summaries
    /\ appState' = "pr-creation"
    /\ lastOp' = Op("handleCreatePR")
    /\ UNCHANGED <<githubApi, selectedRepo, files, selectedFiles, isLoadingFiles,
                   fileContents, repoLoads, contentLoads>>
    /\ TestGenerationRendered("pr-creation", fileContents)

\* the Create PR button of <TestGeneration/> rendered whatever is generated
CreatePRButtonAlwaysRendered == TRUE

\* generatedTests.length > 0 && onCreatePR: the Create PR button is rendered
CreatePRButtonRendered == Len(generatedTests) > 0

\* the Create PR button is clicked: onCreatePR(generatedTests, testSummaries)
CreatePRClick ==
    /\ appState = "test-generation"
    /\ CreatePRButtonRendered
    /\ HandleCreatePR(generatedTests, testSummaries)

(* test-case-manager: the suite store.  A Date is [ms |-> n]; what        *)
(* JSON.stringify writes for it is its ISO text, modelled by the day and   *)
(* the time of day it spells: [iso |-> <<day, ms of the day>>].            *)

DayLength == 2
MaxSuites == 2
MaxCases == 2

NoItem == [present |-> FALSE]
NoSuite == [id |-> <<"null">>]
NoExport == [format |-> "none"]

\* new Date() at time t
DateAt(t) == [ms |-> t]

\* what JSON.stringify writes for a date field: the ISO text of a Date
\* (Date.prototype.toJSON), a text as it is
DateToJSON(d) ==
    IF "ms" \in DOMAIN d THEN [iso |-> <<d.ms \div DayLength, d.ms % DayLength>>] ELSE d

\* new Date(text) for an ISO text
NewDate(text) == [ms |-> text.iso[1] * DayLength + text.iso[2]]

\* JSON.parse(JSON.stringify(suites)): every Date has become its ISO text
StringifiedTestCase(test) ==
    [test EXCEPT !.createdAt = DateToJSON(@), !.updatedAt = DateToJSON(@)]

StringifiedSuite(suite) ==
    [suite EXCEPT !.createdAt = DateToJSON(@), !.updatedAt = DateToJSON(@),
                  !.testCases = [k \in 1..Len(@) |-> StringifiedTestCase(@[k])]]

JsonStringify(suites) == [k \in 1..Len(suites) |-> StringifiedSuite(suites[k])]

\* the mount effect's mapping with the dates left as the texts parsed
LoadedSuiteNotRehydrated(suite) == suite

\* the mount effect's mapping of a parsed suite: the dates are rehydrated
LoadedSuite(suite) ==
    [suite EXCEPT !.createdAt = NewDate(@), !.updatedAt = NewDate(@),
                  !.testCases = [k \in 1..Len(@) |->
                                    [@[k] EXCEPT !.createdAt = NewDate(@),
                                                 !.updatedAt = NewDate(@)]]]

SampleTest(id, title, code, t) ==
    [id |-> <<id>>, title |-> title, description |-> "sample",
     code |-> [kind |-> "ai", text |-> code],
     testType |-> "unit", priority |-> "high", status |-> "ready",
     filePath |-> "src/auth/authenticate.ts", functionName |-> "authenticateUser",
     createdAt |-> DateAt(t), updatedAt |-> DateAt(t)]

\* the sample suite the mount effect makes up when nothing is stored
SampleSuite(t) ==
    [id |-> <<"sample-1">>, name |-> "User Authentication Tests",
     description |-> "Comprehensive test suite for user authentication functionality",
     createdAt |-> DateAt(t), updatedAt |-> DateAt(t),
     tags |-> <<"auth", "security", "user-management">>,
     framework |-> "jest", language |-> "typescript",
     testCases |-> <<SampleTest("test-1", "Should authenticate valid user",
                                <<"d","e","s","c","r","i","b","e">>, t),
                     SampleTest("test-2", "Should reject invalid credentials",
                                <<"t","e","s","t">>, t)>>]

StoreInit ==
    /\ storage = NoItem
    /\ storePc = "unmounted"
    /\ testSuites = <<>>
    /\ selectedSuite = NoSuite
    /\ heldAtUnmount = <<>>
    /\ exported = NoExport

\* <TestCaseManager/> is mounted: useState initial values, then the effect
\* that reads localStorage
MountTestCaseManager ==
    /\ storePc = "unmounted"
    /\ IF storage.present
       THEN /\ testSuites' = [k \in 1..Len(storage.suites) |-> LoadedSuite(storage.suites[k])]
            /\ storePc' = "loaded"
       ELSE /\ testSuites' = <<SampleSuite(now)>>
            /\ storePc' = "seeded"
    /\ selectedSuite' = NoSuite
    /\ exported' = NoExport
    /\ UNCHANGED <<storage, heldAtUnmount>>

\* <TestCaseManager/> is unmounted: its state is gone
UnmountTestCaseManager ==
    /\ storePc # "unmounted"
    /\ storePc' = "unmounted"
    /\ heldAtUnmount' = testSuites
    /\ testSuites' = <<>>
    /\ selectedSuite' = NoSuite
    /\ exported' = NoExport
    /\ UNCHANGED storage

\* a save that sets the state and writes nothing
saveTestSuitesInMemory(suites) ==
    /\ storage' = storage
    /\ testSuites' = suites

\* saveTestSuites
saveTestSuites(suites) ==
    /\ storage' = [present |-> TRUE, suites |-> JsonStringify(suites)]
    /\ testSuites' = suites

\* createTestSuite
createTestSuite(name, description, framework, language, tags) ==
    /\ saveTestSuites(Append(testSuites,
          [id |-> <<"suite", now>>, name |-> name, description |-> description,
           createdAt |-> DateAt(now), updatedAt |-> DateAt(now), tags |-> tags,
           testCases |-> <<>>, framework |-> framework, language |-> language]))
    /\ UNCHANGED selectedSuite

CreateTestSuite ==
    /\ storePc # "unmounted"
    /\ Len(testSuites) < MaxSuites
    /\ \E name \in {"B"} : createTestSuite(name, "", "jest", "typescript", <<>>)
    /\ storePc' = "changed"
    /\ heldAtUnmount' = <<>>
    /\ exported' = NoExport

\* a suite of the list is clicked: setSelectedSuite(suite)
SelectSuite ==
    /\ storePc # "unmounted"
    /\ \E k \in 1..Len(testSuites) : selectedSuite' = testSuites[k]
    /\ exported' = NoExport
    /\ UNCHANGED <<storage, storePc, testSuites, heldAtUnmount>>

\* updatedSuites.find((s) => s.id === suiteId) || null
FindSuite(suites, suiteId) ==
    LET found == {k \in 1..Len(suites) : suites[k].id = suiteId}
    IN  IF found = {} THEN NoSuite
        ELSE suites[CHOOSE k \in found : \A j \in found : k <= j]

\* deleteTestSuite
deleteTestSuite(suiteId) ==
    /\ saveTestSuites(SelectSeq(testSuites, LAMBDA suite : suite.id # suiteId))
    /\ selectedSuite' = IF selectedSuite.id = suiteId THEN NoSuite ELSE selectedSuite

DeleteTestSuite ==
    /\ storePc # "unmounted"
    /\ \E k \in 1..Len(testSuites) : deleteTestSuite(testSuites[k].id)
    /\ storePc' = "changed"
    /\ heldAtUnmount' = <<>>
    /\ exported' = NoExport

\* deleteTestCase
deleteTestCase(suiteId, testId) ==
    LET updatedSuites ==
            [k \in 1..Len(testSuites) |->
                IF testSuites[k].id = suiteId
                THEN [testSuites[k] EXCEPT
                         !.testCases = SelectSeq(@, LAMBDA test : test.id # testId),
                         !.updatedAt = DateAt(now)]
                ELSE testSuites[k]]
    IN  /\ saveTestSuites(updatedSuites)
        /\ selectedSuite' = FindSuite(updatedSuites, suiteId)

\* the delete button of a test of the selected suite
DeleteTestCase ==
    /\ storePc # "unmounted"
    /\ selectedSuite # NoSuite
    /\ \E i \in 1..Len(selectedSuite.testCases) :
          deleteTestCase(selectedSuite.id, selectedSuite.testCases[i].id)
    /\ storePc' = "changed"
    /\ heldAtUnmount' = <<>>
    /\ exported' = NoExport

\* an update that bumps updatedAt of every suite
updateTestCaseBumpingAll(suiteId, testCase) ==
    LET updatedSuites ==
            [k \in 1..Len(testSuites) |->
                IF testSuites[k].id = suiteId
                THEN [testSuites[k] EXCEPT
                         !.testCases = [i \in 1..Len(@) |->
                                           IF @[i].id = testCase.id
                                           THEN [testCase EXCEPT !.updatedAt = DateAt(now)]
                                           ELSE @[i]],
                         !.updatedAt = DateAt(now)]
                ELSE [testSuites[k] EXCEPT !.updatedAt = DateAt(now)]]
    IN  /\ saveTestSuites(updatedSuites)
        /\ selectedSuite' = FindSuite(updatedSuites, suiteId)

\* updateTestCase
updateTestCase(suiteId, testCase) ==
    LET updatedSuites ==
            [k \in 1..Len(testSuites) |->
                IF testSuites[k].id = suiteId
                THEN [testSuites[k] EXCEPT
                         !.testCases = [i \in 1..Len(@) |->
                                           IF @[i].id = testCase.id
                                           THEN [testCase EXCEPT !.updatedAt = DateAt(now)]
                                           ELSE @[i]],
                         !.updatedAt = DateAt(now)]
                ELSE testSuites[k]]
    IN  /\ saveTestSuites(updatedSuites)
        /\ selectedSuite' = FindSuite(updatedSuites, suiteId)

\* what EditTestForm submits for the test it was opened on: the test with
\* the fields of the form
EditedTests(test) ==
    {[test EXCEPT !.title = title, !.status = status] :
        title \in {test.title, "edited"}, status \in {test.status, "draft"}}

\* the edit button of a test of the selected suite, and the form's submit
UpdateTestCase ==
    /\ storePc # "unmounted"
    /\ selectedSuite # NoSuite
    /\ \E i \in 1..Len(selectedSuite.testCases) :
          \E updatedTest \in EditedTests(selectedSuite.testCases[i]) :
              updateTestCase(selectedSuite.id, updatedTest)
    /\ storePc' = "changed"
    /\ heldAtUnmount' = <<>>
    /\ exported' = NoExport

\* promote(suiteId, GeneratedTest, title, description) of the specification's
\* Suite Store: a TestCase derived from the GeneratedTest is appended to the
\* suite, and the store is written as after every mutation
promote(suiteId, generatedTest, title, description) ==
    /\ saveTestSuites(
          [k \in 1..Len(testSuites) |->
              IF testSuites[k].id = suiteId
              THEN [testSuites[k] EXCEPT
                       !.testCases = Append(@,
                           [id |-> generatedTest.id, title |-> title,
                            description |-> description, code |-> generatedTest.code,
                            status |-> "draft",
                            createdAt |-> DateAt(now), updatedAt |-> DateAt(now)])]
              ELSE testSuites[k]])
    /\ UNCHANGED selectedSuite

\* the GeneratedTest items there are to promote
PromotableTests ==
    {MockGenerateTestCode(createFallbackSummary(FileOf(P_foo_ts), 0)),
     AIServiceGenerateTestCode(createFallbackSummary(FileOf(P_b_py), 1),
                               RText(CodeFenced), TRUE)}

Promote ==
    /\ storePc # "unmounted"
    /\ \E k \in 1..Len(testSuites), g \in PromotableTests :
          /\ Len(testSuites[k].testCases) < MaxCases
          /\ promote(testSuites[k].id, g, "promoted", "")
    /\ storePc' = "changed"
    /\ heldAtUnmount' = <<>>
    /\ exported' = NoExport

(* exportTestSuite.  The text handed to the Blob is a sequence of pieces:    *)
(* the code bodies as the test cases hold them, and the texts put between   *)
(* them.  The download is the sequence of the downloads started: one, or    *)
(* none for a format the function has no branch for.                        *)

\* format: "jest" | "zip" | "json"
ExportFormats == {"jest", "zip", "json"}

\* the characters of the suite names of the model
NameText(name) ==
    CASE name = "B" -> <<"B">>
      [] name = "User Authentication Tests" ->
            <<"U","s","e","r"," ","A","u","t","h","e","n","t","i","c","a","t","i","o","n",
              " ","T","e","s","t","s">>

\* s.replace(/\s+/g, "-"): every run of white space becomes one "-"
RECURSIVE SkipSpaces(_, _)
SkipSpaces(s, i) == IF i <= Len(s) /\ IsSpaceChar(s[i]) THEN SkipSpaces(s, i + 1) ELSE i

RECURSIVE ReplaceSpaceRuns(_, _)
ReplaceSpaceRuns(s, i) ==
    IF i > Len(s) THEN <<>>
    ELSE IF IsSpaceChar(s[i]) THEN <<"-">> \o ReplaceSpaceRuns(s, SkipSpaces(s, i))
    ELSE <<s[i]>> \o ReplaceSpaceRuns(s, i + 1)

\* suite.name.replace(/\s+/g, "-").toLowerCase()
DownloadBase(suite) == ToLowerCase(ReplaceSpaceRuns(NameText(suite.name), 1))

TextPiece(chars) == [kind |-> "text", text |-> chars]

\* Array.prototype.join(sep)
RECURSIVE Join(_, _)
Join(arr, sep) ==
    IF arr = <<>> THEN <<>>
    ELSE IF Len(arr) = 1 THEN <<arr[1]>>
    ELSE <<arr[1], sep>> \o Join(Tail(arr), sep)

\* the join with one line end only
JestBundleJoinedByLineEnd(suite) ==
    Join([k \in 1..Len(suite.testCases) |-> suite.testCases[k].code], TextPiece(<<"\n">>))

\* suite.testCases.map((test) => test.code).join("\n\n")
JestBundle(suite) ==
    Join([k \in 1..Len(suite.testCases) |-> suite.testCases[k].code],
         TextPiece(<<"\n", "\n">>))

\* what exportTestSuite gives the browser to download
Download(suite, format) ==
    IF format = "json"
    THEN <<[type |-> "application/json",
            content |-> <<StringifiedSuite(suite)>>,
            name |-> DownloadBase(suite) \o <<".","j","s","o","n">>]>>
    ELSE IF format = "jest"
    THEN <<[type |-> "text/plain",
            content |-> JestBundle(suite),
            name |-> DownloadBase(suite) \o <<".","t","e","s","t",".","j","s">>]>>
    ELSE <<>>

\* an export that also drops the selection
exportTestSuiteDeselecting(suite, format) ==
    /\ exported' = [format |-> format, suite |-> suite, download |-> Download(suite, format)]
    /\ selectedSuite' = NoSuite
    /\ UNCHANGED <<storage, storePc, testSuites, heldAtUnmount>>

\* exportTestSuite
exportTestSuite(suite, format) ==
    /\ exported' = [format |-> format, suite |-> suite, download |-> Download(suite, format)]
    /\ UNCHANGED <<storage, storePc, testSuites, selectedSuite, heldAtUnmount>>

\* the Export select of the selected suite's header
ExportTestSuite ==
    /\ storePc # "unmounted"
    /\ selectedSuite # NoSuite
    /\ \E format \in ExportFormats : exportTestSuite(selectedSuite, format)

-----------------------------------------------------------------------------
(* The repository client (github-api.ts, class GitHubAPI) and its host.    *)
(* request() throws on every answer that is not 2xx, whatever the reason:  *)
(* a step below therefore fails either because the host refuses it (the    *)
(* branch or the file is not there, the ref is there already, the marker   *)
(* is stale) or because of a fault (network, authentication, rate limit).  *)
(* The host follows the GitHub REST API: creating a ref that exists is     *)
(* refused, a contents PUT needs the current marker when the file exists.  *)

NoCall == [op |-> "none", pc |-> "done"]
NoFile == [present |-> FALSE]
NoSha == 0                                  \* a request that carries no marker
BranchNames == {"main", "master", "dev"}    \* fromBranch values
NewBranchNames == {"feat", "dev"}           \* newBranch values
MaxSha == 3                                 \* markers issued before a call starts

FileAt(sha) == [present |-> TRUE, sha |-> sha]

ClientInit ==
    /\ host = [branches |-> {"main"}, file |-> NoFile, rev |-> 0]
    /\ call = NoCall

ClientInitAny ==
    /\ host \in {[branches |-> b, file |-> f, rev |-> 1] :
                   b \in SUBSET BranchNames, f \in {NoFile, FileAt(1)}}
    /\ call = NoCall

CallIdle == call.pc = "done"

\* the answers getRepository can get: the request fails, the body is null,
\* or the body is a repository with or without a default_branch
RepoLookups ==
    {[kind |-> "fail"], [kind |-> "null"]}
        \cup {[kind |-> "ok", default_branch |-> d] :
                 d \in {Undefined, "", "main", "develop"}}

getDefaultBranchRethrowing(lookup) ==
    IF lookup.kind # "ok"
    THEN [threw |-> TRUE, value |-> Undefined]
    ELSE [threw |-> FALSE, value |-> OrText(lookup.default_branch, "main")]

getDefaultBranch(lookup) ==
    IF lookup.kind # "ok"
    THEN [threw |-> FALSE, value |-> "main"]
    ELSE [threw |-> FALSE, value |-> OrText(lookup.default_branch, "main")]

GetDefaultBranch ==
    /\ CallIdle
    /\ \E lookup \in RepoLookups :
          call' = [op |-> "getDefaultBranch", pc |-> "done", lookup |-> lookup,
                   out |-> getDefaultBranch(lookup)]
    /\ UNCHANGED host

\* ---- getFileContent(owner, repo, path)
\* A file's text is a sequence of the characters "a" and "b"; the host sends
\* it base64-encoded ("a" is YQ==, "b" is Yg==) with a line end after every
\* group, and sends "" for an empty file.
MaxText == 2
FileChars == {"a", "b"}
FileTexts == UNION {[1..n -> FileChars] : n \in 0..MaxText}

Base64Of(c) == IF c = "a" THEN <<"Y", "Q", "=", "=">> ELSE <<"Y", "g", "=", "=">>

RECURSIVE HostEncoded(_)
HostEncoded(text) ==
    IF text = <<>> THEN <<>>
    ELSE Base64Of(Head(text)) \o <<"\n">> \o HostEncoded(Tail(text))

\* the answers the contents request can get for a path: the request fails,
\* a directory (an array, which has no content), a file with its content
ContentAnswers ==
    {[kind |-> "fail"], [kind |-> "dir"]}
        \cup {[kind |-> "file", text |-> t, content |-> HostEncoded(t)] : t \in FileTexts}

\* atob on groups of four characters
RECURSIVE atob(_)
atob(encoded) ==
    IF Len(encoded) < 4 THEN <<>>
    ELSE <<IF SubSeq(encoded, 1, 4) = Base64Of("a") THEN "a" ELSE "b">>
            \o atob(SubSeq(encoded, 5, Len(encoded)))

\* file.content.replace(/\n/g, "")
RemoveLineEnds(encoded) == SelectSeq(encoded, LAMBDA c : c # "\n")

getFileContent(answer) ==
    IF answer.kind = "fail"
    THEN [threw |-> TRUE, error |-> "GitHub API error"]
    ELSE IF answer.kind = "file" /\ answer.content # <<>>
         THEN [threw |-> FALSE, value |-> atob(RemoveLineEnds(answer.content))]
         ELSE [threw |-> TRUE, error |-> "File content not available"]

GetFileContent ==
    /\ CallIdle
    /\ \E answer \in ContentAnswers :
          call' = [op |-> "getFileContent", pc |-> "done", answer |-> answer,
                   out |-> getFileContent(answer)]
    /\ UNCHANGED host

\* ---- createBranch(owner, repo, newBranch, fromBranch = "main")
CreateBranchCall ==
    /\ CallIdle
    /\ \E newBranch \in NewBranchNames, fromBranch \in BranchNames :
          call' = [op |-> "createBranch", pc |-> "getBranch",
                   newBranch |-> newBranch, fromBranch |-> fromBranch,
                   asked |-> fromBranch, before |-> host.branches,
                   requests |-> <<>>, retries |-> 0, threw |-> FALSE]
    /\ UNCHANGED host

\* the catch block: one more call, from "master", whose own catch rethrows
CreateBranchCatch(c) ==
    IF c.fromBranch = "main"
    THEN [c EXCEPT !.fromBranch = "master", !.pc = "getBranch", !.retries = @ + 1]
    ELSE [c EXCEPT !.pc = "done", !.threw = TRUE]

\* await this.getBranch(owner, repo, fromBranch): a failure is caught
CreateBranchGetBranch ==
    /\ call.op = "createBranch" /\ call.pc = "getBranch"
    /\ \E fault \in BOOLEAN :
          LET exists == call.fromBranch \in host.branches
              ok == ~fault /\ exists
              logged == [call EXCEPT !.requests =
                            Append(@, [req |-> "getBranch", branch |-> call.fromBranch,
                                       exists |-> exists, ok |-> ok])]
          IN  call' = IF ok THEN [logged EXCEPT !.pc = "postRef"]
                      ELSE CreateBranchCatch(logged)
    /\ UNCHANGED host

\* return this.request(".../git/refs", POST): returned without await, so a
\* rejection leaves the function without passing through the catch block
CreateBranchPostRef ==
    /\ call.op = "createBranch" /\ call.pc = "postRef"
    /\ \E fault \in BOOLEAN :
          LET exists == call.newBranch \in host.branches
              ok == ~fault /\ ~exists
              logged == [call EXCEPT !.requests =
                            Append(@, [req |-> "postRef", branch |-> call.newBranch,
                                       exists |-> exists, ok |-> ok])]
          IN  /\ call' = [logged EXCEPT !.pc = "done", !.threw = ~ok]
              /\ host' = IF ok THEN [host EXCEPT !.branches = @ \cup {call.newBranch}]
                         ELSE host

\* ---- createOrUpdateFile(owner, repo, path, content, message, branch)
CreateOrUpdateFileCall ==
    /\ CallIdle
    /\ host.rev < MaxSha
    /\ call' = [op |-> "createOrUpdateFile", pc |-> "read", sha |-> NoSha,
                requests |-> <<>>, threw |-> FALSE]
    /\ UNCHANGED host

\* await this.request(".../contents/path?ref=branch"): a failure is caught
CreateOrUpdateFileRead ==
    /\ call.op = "createOrUpdateFile" /\ call.pc = "read"
    /\ \E fault \in BOOLEAN :
          LET ok == ~fault /\ host.file.present
              logged == [call EXCEPT !.requests =
                            Append(@, [req |-> "read", present |-> host.file.present,
                                       ok |-> ok])]
          IN  call' = IF ok THEN [logged EXCEPT !.pc = "update", !.sha = host.file.sha]
                      ELSE [logged EXCEPT !.pc = "create"]
    /\ UNCHANGED host

PutAnswer(c, req, ok) ==
    [c EXCEPT !.pc = "done", !.threw = ~ok,
              !.requests = Append(@, [req |-> req, sha |-> c.sha,
                                      present |-> host.file.present, ok |-> ok])]

Written == [host EXCEPT !.file = FileAt(host.rev + 1), !.rev = @ + 1]

\* the variant whose update is awaited inside the try block
CreateOrUpdateFileUpdateCaught ==
    /\ call.op = "createOrUpdateFile" /\ call.pc = "update"
    /\ \E fault \in BOOLEAN :
          LET ok == ~fault /\ host.file.present /\ host.file.sha = call.sha
              answered == PutAnswer(call, "update", ok)
          IN  /\ call' = IF ok THEN answered
                         ELSE [answered EXCEPT !.pc = "create", !.threw = FALSE,
                                               !.sha = NoSha]
              /\ host' = IF ok THEN Written ELSE host

\* return this.request(PUT with sha): returned without await, not caught
CreateOrUpdateFileUpdate ==
    /\ call.op = "createOrUpdateFile" /\ call.pc = "update"
    /\ \E fault \in BOOLEAN :
          LET ok == ~fault /\ host.file.present /\ host.file.sha = call.sha
          IN  /\ call' = PutAnswer(call, "update", ok)
              /\ host' = IF ok THEN Written ELSE host

\* the catch block: return this.request(PUT without sha)
CreateOrUpdateFileCreate ==
    /\ call.op = "createOrUpdateFile" /\ call.pc = "create"
    /\ \E fault \in BOOLEAN :
          LET ok == ~fault /\ ~host.file.present
          IN  /\ call' = PutAnswer(call, "create", ok)
              /\ host' = IF ok THEN Written ELSE host

\* somebody else writes or deletes the file on the host
ExternalWrite ==
    /\ host.rev < MaxSha
    /\ \/ host' = Written
       \/ host.file.present /\ host' = [host EXCEPT !.file = NoFile]
    /\ UNCHANGED call

-----------------------------------------------------------------------------
(* Specifications.                                                         *)

TreeIdle ==
    /\ remote = ListingOf({})
    /\ listFailed = {}
    /\ treePc = "idle"
    /\ treeResult = <<>>

InitTree == TreeInit /\ FlowInit /\ GenInit /\ StoreInit /\ ClientInit

NextTree ==
    \/ TreeSelect /\ UNCHANGED <<flowVars, genVars, storeVars, clientVars>>
    \/ TreeRootFails /\ UNCHANGED <<flowVars, genVars, storeVars, clientVars>>
    \/ TreeBuild /\ UNCHANGED <<flowVars, genVars, storeVars, clientVars>>
    \/ TreeAgain /\ UNCHANGED <<flowVars, genVars, storeVars, clientVars>>

SpecTree == InitTree /\ [][NextTree]_vars

InitGen == TreeIdle /\ FlowInit /\ GenInitAny(MaxFiles) /\ StoreInit /\ ClientInit

NextGen ==
    \/ GenerateSummariesClick /\ UNCHANGED <<treeVars, flowVars, storeVars, clientVars>>
    \/ SummariesThrow /\ UNCHANGED <<treeVars, flowVars, storeVars, clientVars>>
    \/ SummariesStep(SummaryReplies) /\ UNCHANGED <<treeVars, flowVars, storeVars, clientVars>>
    \/ SummariesReturn /\ UNCHANGED <<treeVars, flowVars, storeVars, clientVars>>
    \/ Tick /\ UNCHANGED <<treeVars, flowVars, storeVars, clientVars>>

SpecGen == InitGen /\ [][NextGen]_vars

NextCode ==
    \/ GenerateSummariesClick /\ UNCHANGED <<treeVars, flowVars, storeVars, clientVars>>
    \/ SummariesThrow /\ UNCHANGED <<treeVars, flowVars, storeVars, clientVars>>
    \/ SummariesStep(FewSummaryReplies) /\ UNCHANGED <<treeVars, flowVars, storeVars, clientVars>>
    \/ SummariesReturn /\ UNCHANGED <<treeVars, flowVars, storeVars, clientVars>>
    \/ ToggleSummarySelection /\ UNCHANGED <<treeVars, flowVars, storeVars, clientVars>>
    \/ SelectAllSummaries /\ UNCHANGED <<treeVars, flowVars, storeVars, clientVars>>
    \/ ClearAllSummaries /\ UNCHANGED <<treeVars, flowVars, storeVars, clientVars>>
    \/ GenerateTestCodeClick /\ UNCHANGED <<treeVars, flowVars, storeVars, clientVars>>
    \/ GenerateTestCodeStep(CodeReplies) /\ UNCHANGED <<treeVars, flowVars, storeVars, clientVars>>
    \/ GenerateTestCodeEnd /\ UNCHANGED <<treeVars, flowVars, storeVars, clientVars>>

InitCode == TreeIdle /\ FlowInit /\ GenInitAny(MaxCodeFiles) /\ StoreInit /\ ClientInit

SpecCode == InitCode /\ [][NextCode]_vars

Init == TreeIdle /\ FlowInit /\ GenInit /\ StoreInit /\ ClientInit

\* <TestGeneration/> is rendered and one of its handlers takes a step
TestGenerationStep ==
    /\ appState = "test-generation"
    /\ \/ GenerateSummariesClick
       \/ SummariesStep(WorkSummaryReplies)
       \/ SummariesReturn
       \/ ToggleSummarySelection
       \/ SelectAllSummaries
       \/ ClearAllSummaries
       \/ GenerateTestCodeClick
       \/ GenerateTestCodeStep(WorkCodeReplies)
       \/ GenerateTestCodeEnd
    /\ UNCHANGED flowVars

Next ==
    \/ GetStarted /\ UNCHANGED <<treeVars, storeVars, clientVars>>
    \/ HandleAuthentication /\ UNCHANGED <<treeVars, storeVars, clientVars>>
    \/ HandleRepositorySelect /\ UNCHANGED <<treeVars, storeVars, clientVars>>
    \/ RepositoryLoaded /\ UNCHANGED <<treeVars, storeVars, clientVars>>
    \/ RepositoryLoadFailed /\ UNCHANGED <<treeVars, storeVars, clientVars>>
    \/ HandleFileSelect /\ UNCHANGED <<treeVars, storeVars, clientVars>>
    \/ HandleGenerateTests /\ UNCHANGED <<treeVars, storeVars, clientVars>>
    \/ ContentsLoaded /\ UNCHANGED <<treeVars, storeVars, clientVars>>
    \/ HandleBack /\ UNCHANGED <<treeVars, storeVars, clientVars>>
    \/ HandleManageTests /\ UNCHANGED <<treeVars, storeVars, clientVars>>
    \/ CreatePRClick /\ UNCHANGED <<treeVars, storeVars, clientVars>>
    \/ TestGenerationStep /\ UNCHANGED <<treeVars, storeVars, clientVars>>

Spec == Init /\ [][Next]_vars

InitStore == TreeIdle /\ FlowInit /\ GenInit /\ StoreInit /\ ClientInit

NextStore ==
    \/ MountTestCaseManager /\ UNCHANGED <<treeVars, flowVars, genVars, clientVars>>
    \/ UnmountTestCaseManager /\ UNCHANGED <<treeVars, flowVars, genVars, clientVars>>
    \/ CreateTestSuite /\ UNCHANGED <<treeVars, flowVars, genVars, clientVars>>
    \/ SelectSuite /\ UNCHANGED <<treeVars, flowVars, genVars, clientVars>>
    \/ DeleteTestSuite /\ UNCHANGED <<treeVars, flowVars, genVars, clientVars>>
    \/ DeleteTestCase /\ UNCHANGED <<treeVars, flowVars, genVars, clientVars>>
    \/ Promote /\ UNCHANGED <<treeVars, flowVars, genVars, clientVars>>
    \/ Tick /\ UNCHANGED <<treeVars, flowVars, storeVars, clientVars>>

SpecStore == InitStore /\ [][NextStore]_vars

\* the suite store with its export, at one time of the clock
NextExport ==
    \/ MountTestCaseManager /\ UNCHANGED <<treeVars, flowVars, genVars, clientVars>>
    \/ UnmountTestCaseManager /\ UNCHANGED <<treeVars, flowVars, genVars, clientVars>>
    \/ CreateTestSuite /\ UNCHANGED <<treeVars, flowVars, genVars, clientVars>>
    \/ SelectSuite /\ UNCHANGED <<treeVars, flowVars, genVars, clientVars>>
    \/ DeleteTestSuite /\ UNCHANGED <<treeVars, flowVars, genVars, clientVars>>
    \/ DeleteTestCase /\ UNCHANGED <<treeVars, flowVars, genVars, clientVars>>
    \/ Promote /\ UNCHANGED <<treeVars, flowVars, genVars, clientVars>>
    \/ ExportTestSuite /\ UNCHANGED <<treeVars, flowVars, genVars, clientVars>>

SpecExport == InitStore /\ [][NextExport]_vars

\* the two phases of the component on up to MaxFiles files
NextPipeline ==
    \/ GenerateSummariesClick /\ UNCHANGED <<treeVars, flowVars, storeVars, clientVars>>
    \/ SummariesThrow /\ UNCHANGED <<treeVars, flowVars, storeVars, clientVars>>
    \/ SummariesStep(WorkSummaryReplies) /\ UNCHANGED <<treeVars, flowVars, storeVars, clientVars>>
    \/ SummariesReturn /\ UNCHANGED <<treeVars, flowVars, storeVars, clientVars>>
    \/ ToggleSummarySelection /\ UNCHANGED <<treeVars, flowVars, storeVars, clientVars>>
    \/ GenerateTestCodeClick /\ UNCHANGED <<treeVars, flowVars, storeVars, clientVars>>
    \/ GenerateTestCodeStep(WorkCodeReplies) /\ UNCHANGED <<treeVars, flowVars, storeVars, clientVars>>
    \/ GenerateTestCodeEnd /\ UNCHANGED <<treeVars, flowVars, storeVars, clientVars>>

SpecPipeline == InitGen /\ [][NextPipeline]_vars

\* the file browser on a repository of three testable files
FetchRepository ==
    {Entry(RootPath, N_src, "dir"), Entry(RootPath, N_a_ts, "file"),
     Entry(RootPath, N_go, "file"), Entry(P_src, N_b_py, "file")}

FetchInit ==
    /\ appState = "file-browser"
    /\ githubApi = "api"
    /\ selectedRepo = "owner/repo"
    /\ files = BuildFileTree(ListingOf(FetchRepository), ListingOf(FetchRepository)[RootPath], {})
    /\ selectedFiles = <<>>
    /\ isLoadingFiles = FALSE
    /\ fileContents = <<>>
    /\ prTestCases = <<>>
    /\ prTestSummaries = <<>>
    /\ repoLoads = <<>>
    /\ contentLoads = <<>>
    /\ lastOp = [name |-> "handleRepositorySelect.loaded", from |-> "repo-select"]

InitFetch == TreeIdle /\ FetchInit /\ GenInit /\ StoreInit /\ ClientInit

NextFetch ==
    \/ HandleFileSelect /\ UNCHANGED <<treeVars, storeVars, clientVars>>
    \/ SelectAllFiles /\ UNCHANGED <<treeVars, storeVars, clientVars>>
    \/ ClearAllFiles /\ UNCHANGED <<treeVars, storeVars, clientVars>>
    \/ HandleGenerateTests /\ UNCHANGED <<treeVars, storeVars, clientVars>>
    \/ ContentsLoaded /\ UNCHANGED <<treeVars, storeVars, clientVars>>
    \/ HandleBack /\ UNCHANGED <<treeVars, storeVars, clientVars>>

SpecFetch == InitFetch /\ [][NextFetch]_vars

\* the workflow up to the file browser, with both repositories of the
\* account and MaxRepoLoads selections in flight: <RepositorySelector/>
\* stays rendered, and its cards clickable, while a tree is being built
MaxRepoLoads == 2

SelectRepository == \E repo \in RepositoryNames : handleRepositorySelect(repo, MaxRepoLoads)

NextSelect ==
    \/ GetStarted /\ UNCHANGED <<treeVars, storeVars, clientVars>>
    \/ HandleAuthentication /\ UNCHANGED <<treeVars, storeVars, clientVars>>
    \/ SelectRepository /\ UNCHANGED <<treeVars, storeVars, clientVars>>
    \/ RepositoryLoaded /\ UNCHANGED <<treeVars, storeVars, clientVars>>
    \/ RepositoryLoadFailed /\ UNCHANGED <<treeVars, storeVars, clientVars>>
    \/ HandleBack /\ UNCHANGED <<treeVars, storeVars, clientVars>>

SpecSelect == Init /\ [][NextSelect]_vars

\* the suite store with the four mutations of the component
NextEdit ==
    \/ MountTestCaseManager /\ UNCHANGED <<treeVars, flowVars, genVars, clientVars>>
    \/ UnmountTestCaseManager /\ UNCHANGED <<treeVars, flowVars, genVars, clientVars>>
    \/ CreateTestSuite /\ UNCHANGED <<treeVars, flowVars, genVars, clientVars>>
    \/ SelectSuite /\ UNCHANGED <<treeVars, flowVars, genVars, clientVars>>
    \/ DeleteTestSuite /\ UNCHANGED <<treeVars, flowVars, genVars, clientVars>>
    \/ UpdateTestCase /\ UNCHANGED <<treeVars, flowVars, genVars, clientVars>>
    \/ DeleteTestCase /\ UNCHANGED <<treeVars, flowVars, genVars, clientVars>>
    \/ Tick /\ UNCHANGED <<treeVars, flowVars, storeVars, clientVars>>

SpecEdit == InitStore /\ [][NextEdit]_vars

\* the repository client alone, against every small host
InitClient == TreeIdle /\ FlowInit /\ GenInit /\ StoreInit /\ ClientInitAny

NextClient ==
    \/ GetDefaultBranch /\ UNCHANGED <<treeVars, flowVars, genVars, storeVars>>
    \/ GetFileContent /\ UNCHANGED <<treeVars, flowVars, genVars, storeVars>>
    \/ CreateBranchCall /\ UNCHANGED <<treeVars, flowVars, genVars, storeVars>>
    \/ CreateBranchGetBranch /\ UNCHANGED <<treeVars, flowVars, genVars, storeVars>>
    \/ CreateBranchPostRef /\ UNCHANGED <<treeVars, flowVars, genVars, storeVars>>
    \/ CreateOrUpdateFileCall /\ UNCHANGED <<treeVars, flowVars, genVars, storeVars>>
    \/ CreateOrUpdateFileRead /\ UNCHANGED <<treeVars, flowVars, genVars, storeVars>>
    \/ CreateOrUpdateFileUpdate /\ UNCHANGED <<treeVars, flowVars, genVars, storeVars>>
    \/ CreateOrUpdateFileCreate /\ UNCHANGED <<treeVars, flowVars, genVars, storeVars>>
    \/ ExternalWrite /\ UNCHANGED <<treeVars, flowVars, genVars, storeVars>>

SpecClient == InitClient /\ [][NextClient]_vars

-----------------------------------------------------------------------------
(* Claims about the tree builder.                                          *)

\* the children sequence the built tree holds for a directory path
ChildrenAt(tree, dir) ==
    IF dir = RootPath THEN tree
    ELSE LET n == CHOOSE n \in Nodes(tree) : n.type = "directory" /\ n.path = dir
         IN  n.children

HasDirNode(tree, dir) ==
    dir = RootPath \/ \E n \in Nodes(tree) : n.type = "directory" /\ n.path = dir

\* C1: when the listing call of some subdirectory fails, the built tree holds
\* that directory with an empty children sequence, and still holds every other
\* entry the builder came to (every directory, every testable file), each in
\* the children of its parent directory; the build ends with a tree.
C1_PartialFailureIsolation ==
    treePc = "built" =>
        \A d \in DirPaths :
            (HasDirNode(treeResult, d) /\ d \notin listFailed) =>
                \A e \in Range(remote[d]) :
                    /\ e.type = "dir" =>
                          \E n \in Range(ChildrenAt(treeResult, d)) :
                              /\ n.type = "directory"
                              /\ n.path = e.path
                              /\ n.name = e.name
                              /\ (e.path \in listFailed => n.children = <<>>)
                    /\ (e.type = "file" /\ isTestableFile(e.name)) =>
                          \E n \in Range(ChildrenAt(treeResult, d)) :
                              n.type = "file" /\ n.path = e.path

\* a directory whose listing failed next to a sibling directory that was built
\* with a file in it
C1_Witness ==
    /\ treePc = "built"
    /\ \E d \in listFailed, n \in Range(treeResult), m \in Range(treeResult) :
          /\ n.type = "directory" /\ n.path = d /\ n.children = <<>>
          /\ remote[d] # <<>>
          /\ m.type = "directory" /\ m.path # d /\ m.children # <<>>

\* the extension of a file name: what follows its last ".", when it has one
HasExtension(name) == "." \in Range(name)

\* C2: every file node of the built catalog, at any depth, has an extension of
\* the testable allow-list; a name with an unrecognized extension, or with no
\* extension at all, is not in the catalog.
C2_OnlyTestableExtensions ==
    treePc = "built" =>
        \A n \in FileNodes(treeResult) :
            HasExtension(n.name) /\ FileExt(n.name) \in testableExtensions

-----------------------------------------------------------------------------
(* Claims about the generation pipeline.                                    *)

\* the call of generateTestSummaries / generateTestSummariesAction is at its
\* return statement
SummariesAtReturn == sumRun.running /\ sumRun.i > Len(sumRun.files)

\* C3: summary generation invoked on N files returns at least N summaries,
\* at least one for each input file, whatever the AI replies for each file
\* (a failed call, a text that cannot be parsed, an array of any length).
C3_AtLeastOneSummaryPerFile ==
    SummariesAtReturn =>
        /\ Len(sumRun.summaries) >= Len(sumRun.files)
        /\ \A k \in 1..Len(sumRun.files) :
              \E j \in 1..Len(sumRun.summaries) :
                  sumRun.summaries[j].filePath = sumRun.files[k].path

NoTwoShareAnId(records) ==
    \A i, j \in 1..Len(records) : i # j => records[i].id # records[j].id

\* C4: within one generation session no two TestSummary records share an id
\* and no two GeneratedTest records share an id, for summaries parsed from a
\* reply and for fallback summaries, for any number of files of one call.
C4_IdsUnique ==
    /\ NoTwoShareAnId(testSummaries)
    /\ sumRun.running => NoTwoShareAnId(sumRun.summaries)
    /\ NoTwoShareAnId(generatedTests)

\* the code field of a GeneratedTest is not the empty text
CodeNonEmpty(code) == IF code.kind = "ai" THEN code.text # <<>> ELSE code.tests # <<>>

\* C5: code generation run on a selection of K summaries ends with exactly K
\* GeneratedTest records, each with a non-empty code, whatever the AI replies
\* (the component calling AIService, as test-generation.tsx does).
C5_ExactlyKNonEmptyTests ==
    (entry = "ai-service" /\ codeRun.running /\ codeRun.i > Len(codeRun.list)) =>
        /\ Len(codeRun.codes) = Len(codeRun.list)
        /\ \A k \in 1..Len(codeRun.codes) : CodeNonEmpty(codeRun.codes[k].code)

\* a file path with its extension taken off: the path up to the last "." of
\* its last segment, the whole path when that segment has no "."
ExtensionStripped(path) ==
    LET base == Pop(Split(path, "/"))
        dots == {i \in 1..Len(base) : base[i] = "."}
    IN  IF dots = {} THEN path
        ELSE LET last == CHOOSE i \in dots : \A j \in dots : i >= j
             IN  SubSeq(path, 1, Len(path) - (Len(base) - last + 1))

\* C6: the fallback test code of a summary is fixed by its testType,
\* functionName and filePath and has one of three shapes: unit with a
\* functionName imports that function from the file path with its extension
\* stripped and has the three blocks valid input / null-undefined / invalid
\* input; integration imports the whole module and has two blocks; anything
\* else imports the whole module and has three blocks.  For both entry points.
C6_FallbackShapes ==
    codeRun.running =>
        \A k \in 1..Len(codeRun.codes) :
            LET summary == codeRun.list[k]
                code == codeRun.codes[k].code
            IN  code.kind = "skeleton" =>
                    /\ code.importPath = ExtensionStripped(summary.filePath)
                    /\ IF summary.testType = "unit" /\ Truthy(summary.functionName)
                       THEN /\ code.importStyle = "named"
                            /\ code.importName = <<summary.functionName>>
                            /\ code.tests = <<"should handle valid input correctly",
                                              "should handle edge cases",
                                              "should handle invalid input">>
                       ELSE IF summary.testType = "integration"
                            THEN code.importStyle = "namespace" /\ Len(code.tests) = 2
                            ELSE code.importStyle = "namespace" /\ Len(code.tests) = 3

-----------------------------------------------------------------------------
(* Claims about the workflow.                                               *)

\* C7: from file-browser, back always moves to repo-select and leaves the
\* file tree empty, the selection empty and no repository selected.
C7_BackFromFileBrowser ==
    (lastOp.name = "handleBack" /\ lastOp.from = "file-browser") =>
        /\ appState = "repo-select"
        /\ files = <<>>
        /\ selectedFiles = <<>>
        /\ selectedRepo = NoRepo

C7_Witness ==
    /\ lastOp.name = "handleBack" /\ lastOp.from = "file-browser"
    /\ appState = "repo-select"
    /\ githubApi # NoApi
    /\ fileContents # <<>>

\* C8: in every reachable state where the workflow is in pr-creation the
\* generated tests handed to PR creation are not empty, and no step enters
\* pr-creation while no GeneratedTest is held.
C8_PRCreationHasTests ==
    /\ [](appState = "pr-creation" => prTestCases # <<>>)
    /\ [][(appState # "pr-creation" /\ appState' = "pr-creation") =>
              generatedTests # <<>>]_vars

C8_Witness ==
    /\ appState = "pr-creation"
    /\ lastOp.name = "handleCreatePR"
    /\ prTestCases # <<>>

\* C9: handleCreatePR invoked with an empty list of generated tests is a
\* no-op: appState, prTestCases and prTestSummaries stay as they are.
C9_EmptyCreatePRRefused ==
    appState = "test-generation" =>
        ~ENABLED (/\ HandleCreatePR(<<>>, testSummaries)
                  /\ UNCHANGED <<treeVars, storeVars, clientVars>>
                  /\ <<appState, prTestCases, prTestSummaries>>' #
                         <<appState, prTestCases, prTestSummaries>>)

-----------------------------------------------------------------------------
(* Claims about the suite store.                                            *)

IsDate(v) == DOMAIN v = {"ms"}
SameDay(d, e) == d.ms \div DayLength = e.ms \div DayLength

\* the test cases of a suite that came from promote
PromotedIn(suite) ==
    {i \in 1..Len(suite.testCases) : suite.testCases[i].title = "promoted"}

\* C10: a suite that was created, had two GeneratedTest items promoted into
\* it and was persisted is, once reloaded from the store, a suite of the same
\* name with exactly 2 test cases, whose createdAt and updatedAt are date
\* values on the same days as the originals.
C10_StoreRoundTrip ==
    storePc = "loaded" =>
        /\ Len(testSuites) = Len(heldAtUnmount)
        /\ \A k \in 1..Len(heldAtUnmount) :
              LET original == heldAtUnmount[k]
                  reloaded == testSuites[k]
              IN  (original.id[1] = "suite" /\ Cardinality(PromotedIn(original)) = 2) =>
                      /\ reloaded.id = original.id
                      /\ reloaded.name = original.name
                      /\ Len(reloaded.testCases) = 2
                      /\ IsDate(reloaded.createdAt) /\ IsDate(reloaded.updatedAt)
                      /\ SameDay(reloaded.createdAt, original.createdAt)
                      /\ SameDay(reloaded.updatedAt, original.updatedAt)
                      /\ \A i \in 1..2 :
                            /\ IsDate(reloaded.testCases[i].createdAt)
                            /\ IsDate(reloaded.testCases[i].updatedAt)
                            /\ SameDay(reloaded.testCases[i].createdAt,
                                       original.testCases[i].createdAt)
                            /\ SameDay(reloaded.testCases[i].updatedAt,
                                       original.testCases[i].updatedAt)

C10_Witness ==
    /\ storePc = "loaded"
    /\ \E k \in 1..Len(testSuites) :
          /\ testSuites[k].id[1] = "suite"
          /\ testSuites[k].name = "B"
          /\ Cardinality(PromotedIn(testSuites[k])) = 2
          /\ testSuites[k].createdAt.ms >= DayLength
          /\ testSuites[k].testCases[1].code # testSuites[k].testCases[2].code

-----------------------------------------------------------------------------
(* Claims about the export.                                                 *)

BlankLine == TextPiece(<<"\n", "\n">>)

\* C11: the jest export of a suite is the code bodies of all its test cases,
\* in the order of the suite, with one blank-line separator between each two
\* neighbours and nothing else.
C11_JestBundleIsCodesInOrder ==
    exported.format = "jest" =>
        /\ Len(exported.download) = 1
        /\ LET cases == exported.suite.testCases
               text == exported.download[1].content
           IN  /\ Len(text) = IF cases = <<>> THEN 0 ELSE 2 * Len(cases) - 1
               /\ \A k \in 1..Len(cases) : text[2 * k - 1] = cases[k].code
               /\ \A k \in 1..(Len(cases) - 1) : text[2 * k] = BlankLine

C11_Witness ==
    /\ exported.format = "jest"
    /\ Len(exported.suite.testCases) = 2
    /\ exported.suite.testCases[1].code # exported.suite.testCases[2].code
    /\ Len(exported.download[1].content) = 3

\* C12: a step that exports, in any of the three formats, leaves the
\* persisted store, the suite list and the selected suite as they were, and
\* the suite that was exported is the selected suite as it still is.
C12_ExportLeavesStore ==
    [][exported' # NoExport =>
          /\ storage' = storage
          /\ testSuites' = testSuites
          /\ selectedSuite' = selectedSuite
          /\ exported'.suite = selectedSuite']_vars

C12_Witness ==
    /\ exported.format = "json"
    /\ Len(exported.download) = 1
    /\ storage.present
    /\ selectedSuite = exported.suite
    /\ Len(selectedSuite.testCases) > 0

-----------------------------------------------------------------------------
(* Claims about the workflow's resets and transitions.                      *)

\* C13: in every reachable state with appState = landing there is no
\* credential handle, no selected repository, an empty file tree, an empty
\* selection, no fetched file contents and no held PR test cases.
C13_LandingHoldsNoSessionState ==
    appState = "landing" =>
        /\ githubApi = NoApi
        /\ selectedRepo = NoRepo
        /\ files = <<>>
        /\ selectedFiles = <<>>
        /\ fileContents = <<>>
        /\ prTestCases = <<>>

\* C14: back out of repo-select moves to landing and drops the credential
\* handle: right after it githubApi is null.
C14_BackFromRepoSelectDropsApi ==
    /\ [][(appState = "repo-select" /\ lastOp'.name = "handleBack" /\ lastOp' # lastOp) =>
              githubApi' = NoApi]_vars
    /\ []((lastOp.name = "handleBack" /\ lastOp.from = "repo-select") =>
              (appState = "landing" /\ githubApi = NoApi))

C14_Witness ==
    /\ lastOp.name = "handleBack" /\ lastOp.from = "repo-select"
    /\ appState = "landing"
    /\ githubApi = NoApi
    /\ selectedRepo # NoRepo

\* C15: back out of test-management and back out of pr-creation both lead
\* to test-generation, and no step moves from test-management to pr-creation
\* or from pr-creation to test-management.
C15_BackFromManagementAndPR ==
    /\ []((lastOp.name = "handleBack" /\ lastOp.from \in {"test-management", "pr-creation"}) =>
              appState = "test-generation")
    /\ [][/\ appState = "test-management" => appState' # "pr-creation"
          /\ appState = "pr-creation" => appState' # "test-management"]_vars

C15_Witness ==
    /\ lastOp.name = "handleBack" /\ lastOp.from = "pr-creation"
    /\ appState = "test-generation"
    /\ prTestCases # <<>>

\* the trees buildFileTree returns for the repository of the workflow
WorkTrees ==
    {BuildFileTree(ListingOf(WorkRepository), ListingOf(WorkRepository)[RootPath], f) :
        f \in SUBSET {P_src}}

C17_TestGenerationHasContents ==
    appState = "test-generation" => fileContents # <<>>

-----------------------------------------------------------------------------
(* Claims about the summaries.                                              *)

\* the reply texts that hold no well-formed array, and those that hold one
UnparseableTexts == {TextNoArray, TextBadJson, TextTwoArrays, TextBackwards}
ParseableTexts == {TextPlainArray, TextFenced, TextInProse, TextEmptyArray}

FailedOrUnparseable(reply) == reply.kind = "fail" \/ reply.text \in UnparseableTexts

\* the objects a reply text carries
ObjectCount(text) == Cardinality({i \in 1..Len(text) : text[i].tok = "object"})

\* the name of a file of the model, after its last "/"
NameOfFile(path) ==
    CASE path = P_foo_ts -> <<"f","o","o",".","t","s">>
      [] path = P_b_py -> <<"b",".","p","y">>
      [] path = P_x_jsx -> <<"x",".","j","s","x">>

\* what the summaries call has pushed for its k-th file
SummariesOfFile(k) ==
    SubSeq(sumRun.summaries, (IF k = 1 THEN 0 ELSE sumRun.ends[k - 1]) + 1, sumRun.ends[k])

\* C18: in a summaries call, whatever the other files got, a file whose AI
\* call failed or whose reply holds no array that parses has exactly one
\* summary in the result, the fallback (title "Basic tests for <basename>",
\* unit, medium, complexity 3, the file's path), and every file whose reply
\* parsed has all the summaries of its reply in the result, the files in
\* their order and nothing else.
C18_FailureIsolatedPerFile ==
    sumRun.running =>
        /\ Len(sumRun.replies) = sumRun.i - 1
        /\ (sumRun.replies # <<>> =>
               sumRun.ends[Len(sumRun.ends)] = Len(sumRun.summaries))
        /\ \A k \in 1..Len(sumRun.replies) :
              LET reply == sumRun.replies[k]
                  file == sumRun.files[k]
                  mine == SummariesOfFile(k)
              IN  /\ \A j \in 1..Len(mine) : mine[j].filePath = file.path
                  /\ (~apiKey \/ FailedOrUnparseable(reply)) =>
                        /\ Len(mine) = 1
                        /\ mine[1].title = <<"Basic tests for ", NameOfFile(file.path)>>
                        /\ mine[1].testType = "unit"
                        /\ mine[1].priority = "medium"
                        /\ mine[1].estimatedComplexity = 3
                  /\ (apiKey /\ reply.kind = "text" /\ reply.text \in ParseableTexts) =>
                        Len(mine) = ObjectCount(reply.text)

C18_Witness ==
    /\ SummariesAtReturn
    /\ apiKey
    /\ Len(sumRun.files) = 2
    /\ sumRun.replies[1] = RText(TextBadJson)
    /\ sumRun.replies[2] = RText(TextPlainArray)
    /\ Len(sumRun.summaries) = 3

\* C19: while the access key is absent no generation call gives a result:
\* no summaries call has collected or returned a summary, and no code call
\* has collected or returned test code, whichever module serves the calls.
C19_NoKeyNoResults ==
    ~apiKey =>
        /\ testSummaries = <<>>
        /\ sumRun.running => sumRun.summaries = <<>>
        /\ generatedTests = <<>>
        /\ codeRun.running => codeRun.codes = <<>>

\* a summary whose fields are in the ranges a TestSummary has
InRange(sm) ==
    /\ sm.testType \in {"unit", "integration", "edge-case"}
    /\ sm.priority \in {"high", "medium", "low"}
    /\ sm.estimatedComplexity \in 1..5

\* C20: every summary that summary generation has collected or returned has
\* its testType in {unit, integration, edge-case}, its priority in
\* {high, medium, low} and its estimatedComplexity in 1..5, whatever the
\* reply carried in these fields.
C20_SummaryFieldsInRange ==
    /\ \A j \in 1..Len(testSummaries) : InRange(testSummaries[j])
    /\ sumRun.running => \A j \in 1..Len(sumRun.summaries) : InRange(sumRun.summaries[j])

-----------------------------------------------------------------------------
(* Claims about the catalog's languages.                                    *)

\* the file names of the model's repository
AllNames == {e.name : e \in AllEntries}

RealLanguages ==
    {"JavaScript", "React", "TypeScript", "Python", "Java", "C++", "C", "C#", "PHP",
     "Ruby", "Go", "Rust", "Kotlin", "Swift"}

\* C23: every file node of the built catalog carries a real language name,
\* never "Unknown" and never the empty text, and so does getFileLanguage for
\* every file name and every extension that isTestableFile accepts.
C23_CatalogLanguagesAreReal ==
    /\ \A n \in FileNodes(treeResult) : n.language \in RealLanguages
    /\ \A name \in AllNames \cup testableExtensions :
          isTestableFile(name) => getFileLanguage(name) \in RealLanguages

C23_Witness ==
    /\ treePc = "built"
    /\ \E n, m \in FileNodes(treeResult) :
          /\ n.name = N_D_JS /\ n.language = "JavaScript"
          /\ m.name = N_go /\ m.language = "Go"

-----------------------------------------------------------------------------
(* Claims about the repository client.                                     *)

\* what a branch name is: a text that is there and not empty
IsBranchName(v) == v \notin {Undefined, ""}

\* C21: the default-branch query never fails: it returns a branch name, the
\* repository's own when the lookup carries one, and "main" when the lookup
\* fails or carries none.
C21_DefaultBranchNeverFails ==
    call.op = "getDefaultBranch" =>
        /\ ~call.out.threw
        /\ IsBranchName(call.out.value)
        /\ (call.lookup.kind # "ok" => call.out.value = "main")
        /\ (call.lookup.kind = "ok" =>
               call.out.value = IF IsBranchName(call.lookup.default_branch)
                                THEN call.lookup.default_branch ELSE "main")

C21_Witness ==
    /\ call.op = "getDefaultBranch"
    /\ call.lookup.kind = "fail"
    /\ call.out.value = "main"

\* a request whose failure was not the host's refusal (network, authentication)
Faulted(r) ==
    CASE r.req = "getBranch" -> r.exists /\ ~r.ok
      [] r.req = "postRef" -> ~r.exists /\ ~r.ok
      [] OTHER -> FALSE

NoFaults(c) == \A k \in 1..Len(c.requests) : ~Faulted(c.requests[k])

CreateBranchDone == call.op = "createBranch" /\ call.pc = "done"

\* C22: createBranch is idempotent: invoked for a branch name that exists
\* already, from a source branch that exists and with no request faulting, it
\* succeeds and leaves the repository's branches as they were.
C22_CreateBranchIdempotent ==
    (/\ CreateBranchDone
     /\ call.newBranch \in call.before
     /\ call.asked \in call.before
     /\ NoFaults(call))
        => /\ ~call.threw
           /\ host.branches = call.before

\* C29: createBranch retries against "master" at most once, and only when the
\* source branch asked for is "main" and the host does not have it; a missing
\* source branch other than "main", a failed ref creation and a missing
\* "master" are surfaced with no further request.
C29_RetryOnlyWhenMainIsMissing ==
    call.op = "createBranch" =>
        /\ call.retries <= 1
        /\ call.retries = 1 =>
              /\ call.asked = "main"
              /\ call.requests[1].req = "getBranch"
              /\ call.requests[1].branch = "main"
              /\ ~call.requests[1].exists
        /\ \A k \in 1..Len(call.requests) :
              LET r == call.requests[k]
              IN  (/\ ~r.ok
                   /\ \/ r.req = "postRef"
                      \/ r.branch # "main")
                     => /\ k = Len(call.requests)
                        /\ call.pc = "done"
                        /\ call.threw

CreateOrUpdateFileDone == call.op = "createOrUpdateFile" /\ call.pc = "done"

\* the write requests (PUT) of a call
Writes(c) == SelectSeq(c.requests, LAMBDA r : r.req \in {"update", "create"})

\* C27: createOrUpdateFile first reads the path; it sends an update carrying
\* the marker read if and only if the file is present at the read, and a
\* create carrying no marker if and only if the file is absent at the read.
C27_UpdateIffPresent ==
    CreateOrUpdateFileDone =>
        /\ call.requests[1].req = "read"
        /\ \A k \in 2..Len(call.requests) :
              LET r == call.requests[k]
              IN  /\ r.req = "update" <=> call.requests[1].present
                  /\ r.req = "create" <=> ~call.requests[1].present
                  /\ r.req = "update" => r.sha # NoSha
                  /\ r.req = "create" => r.sha = NoSha

\* C28: every call of createOrUpdateFile sends exactly one write request, and
\* when that request fails (as it does with a conflict when somebody else
\* changed the file after the read) the call fails, with no second write.
C28_OneWriteAndItsFailureSurfaces ==
    /\ call.op = "createOrUpdateFile" => Len(Writes(call)) <= 1
    /\ CreateOrUpdateFileDone =>
          /\ Len(Writes(call)) = 1
          /\ call.threw = ~Writes(call)[1].ok

\* an update refused because the marker read is no longer the file's
C28_Witness ==
    /\ CreateOrUpdateFileDone
    /\ call.threw
    /\ Len(call.requests) = 2
    /\ call.requests[1].ok
    /\ call.requests[2].req = "update"
    /\ host.file.present
    /\ host.file.sha # call.sha

-----------------------------------------------------------------------------
(* Claims about loads in flight.                                           *)

\* a repository load or a content fetch in flight comes to its end
LoadResolves == Len(repoLoads') < Len(repoLoads) \/ Len(contentLoads') < Len(contentLoads)

\* C24: a tree build or a content fetch that was in flight when the user went
\* back, and resolves in the state the user went back to, is discarded: it
\* changes neither appState nor the file tree nor the fetched contents.
C24_StaleResultIsDiscarded ==
    [][(lastOp.name = "handleBack" /\ LoadResolves)
          => /\ appState' = appState
             /\ files' = files
             /\ fileContents' = fileContents]_vars

-----------------------------------------------------------------------------
(* Claims about the phases of the generation component.                    *)

\* a summaries run, a code run, is started by this step
SummariesStart == sumRun' # sumRun /\ sumRun'.running /\ sumRun'.i = 1
CodeStart == codeRun' # codeRun /\ codeRun'.running /\ codeRun'.i = 1

FileIndex(fs, path) == CHOOSE k \in 1..Len(fs) : fs[k].path = path

\* the summaries follow the files: no summary of a later file before one of
\* an earlier file
InFileOrder(summaries, fs) ==
    \A a, b \in 1..Len(summaries) :
        a < b => FileIndex(fs, summaries[a].filePath) <= FileIndex(fs, summaries[b].filePath)

\* the tests follow the summaries they were generated for, in their order
InSummaryOrder(codes, list) ==
    \E f \in [1..Len(codes) -> 1..Len(list)] :
        /\ \A a, b \in 1..Len(codes) : a < b => f[a] < f[b]
        /\ \A a \in 1..Len(codes) : codes[a] \in
              {AIServiceGenerateTestCode(list[f[a]], reply, apiKey) : reply \in WorkCodeReplies}
                 \cup {generateTestCodeAction(list[f[a]], reply) : reply \in WorkCodeReplies}

-----------------------------------------------------------------------------
(* Claims about the fetched contents.                                      *)

\* the place of a path in a selection
PlaceIn(selection, path) == CHOOSE k \in 1..Len(selection) : selection[k] = path

\* C30: when a content fetch has come to its end, fileContents holds exactly
\* the files of the selection it was started on whose read did not fail, each
\* once and with its content, in the order of the selection; a failed read
\* leaves out its file and none of the others.
C30_FetchedAreTheReadableSelected ==
    lastOp.name = "handleGenerateTests.loaded" =>
        /\ {fileContents[k].path : k \in 1..Len(fileContents)}
              = Range(lastOp.selection) \ lastOp.failing
        /\ \A a, b \in 1..Len(fileContents) :
              a < b => PlaceIn(lastOp.selection, fileContents[a].path)
                          < PlaceIn(lastOp.selection, fileContents[b].path)
        /\ \A k \in 1..Len(fileContents) : fileContents[k] = FileOf(fileContents[k].path)
        /\ appState = "test-generation"

\* three files selected, the read of the second failed, the other two held
C30_Witness ==
    /\ lastOp.name = "handleGenerateTests.loaded"
    /\ Len(lastOp.selection) = 3
    /\ lastOp.failing = {lastOp.selection[2]}
    /\ Len(fileContents) = 2
    /\ fileContents[1].path = lastOp.selection[1]
    /\ fileContents[2].path = lastOp.selection[3]

\* C31: getFileContent returns the text of every file that has a payload, the
\* empty one included, and fails with "File content not available" only for
\* an entry that has no payload (a directory).
C31_ContentOfEveryFile ==
    call.op = "getFileContent" =>
        /\ call.answer.kind = "file" =>
              /\ ~call.out.threw
              /\ call.out.value = call.answer.text
        /\ (call.out.threw /\ call.out.error = "File content not available") =>
              call.answer.kind = "dir"

-----------------------------------------------------------------------------
(* Claims about the mutations of the suite store.                          *)

\* C32: after every mutation (create suite, delete suite, update test case,
\* delete test case), and until the component is unmounted, the stored list is
\* the serialized in-memory list, and reloading it gives the in-memory list.
C32_StoredIsHeldAfterMutation ==
    storePc = "changed" =>
        /\ storage.present
        /\ storage.suites = JsonStringify(testSuites)
        /\ [k \in 1..Len(storage.suites) |-> LoadedSuite(storage.suites[k])] = testSuites

\* a created suite next to the sample suite, one test of which was edited and
\* the other deleted
C32_Witness ==
    /\ storePc = "changed"
    /\ Len(testSuites) = 2
    /\ testSuites[1].id = <<"sample-1">>
    /\ Len(testSuites[1].testCases) = 1
    /\ testSuites[1].testCases[1].title = "edited"
    /\ testSuites[2].id[1] = "suite"

\* a step of the mounted component that takes suites away, and one that
\* changes suites of the list in place
SuiteDeleted ==
    /\ storePc # "unmounted" /\ storePc' # "unmounted"
    /\ Len(testSuites') < Len(testSuites)

TestCaseChanged ==
    /\ storePc # "unmounted" /\ storePc' # "unmounted"
    /\ Len(testSuites') = Len(testSuites)
    /\ testSuites' # testSuites

TestsBut(tests, testId) == SelectSeq(tests, LAMBDA test : test.id # testId)

\* new is old with the test cases of id testId taken away, or replaced each
\* in its place by a test case of that id updated now
OneTestChanged(old, new, testId) ==
    /\ TestsBut(new, testId) = TestsBut(old, testId)
    /\ \/ Len(TestsBut(new, testId)) = Len(new)
       \/ /\ Len(new) = Len(old)
          /\ \A i \in 1..Len(old) :
                IF old[i].id = testId
                THEN /\ new[i].id = testId
                     /\ new[i].updatedAt = DateAt(now)
                     /\ new[i].createdAt = old[i].createdAt
                ELSE new[i] = old[i]

-----------------------------------------------------------------------------
(* Claims about what the stages keep.                                      *)

\* C34: a step that leaves test-generation (back, Manage Tests, Create PR)
\* discards the summaries, their selection and the generated tests, and a
\* step that enters test-generation finds them empty; back from
\* test-generation to file-browser keeps the file tree, the selected files
\* and the selected repository.
C34_LeavingTestGenerationDiscards ==
    [][/\ (appState = "test-generation" /\ appState' # "test-generation") => GenFresh'
       /\ (appState # "test-generation" /\ appState' = "test-generation") => GenFresh'
       /\ (appState = "test-generation" /\ lastOp' = [name |-> "handleBack",
                                                        from |-> "test-generation"]) =>
             /\ appState' = "file-browser"
             /\ UNCHANGED <<files, selectedFiles, selectedRepo>>]_vars

\* back in test-generation from the test management, which is reached only
\* with generated tests held: nothing is held any more
C34_Witness ==
    /\ appState = "test-generation"
    /\ lastOp = [name |-> "handleBack", from |-> "test-management"]
    /\ GenFresh
    /\ fileContents # <<>>

\* C35: after Select All the selected files are the paths of all the files of
\* the catalog, and after Clear All none is selected, whatever was selected
\* before.
C35_SelectAllAndClearAll ==
    /\ lastOp.name = "selectAllFiles" =>
          Range(selectedFiles) = {n.path : n \in FileNodes(files)}
    /\ lastOp.name = "clearAllFiles" => selectedFiles = <<>>

\* C36: in repo-select, file-browser, test-generation, test-management and
\* pr-creation a credential handle is held (githubApi is not null).
C36_CredentialHeldPastAuth ==
    appState \in {"repo-select", "file-browser", "test-generation", "test-management",
                  "pr-creation"} => githubApi # NoApi

\* the trees buildFileTree returns for a repository
TreesOf(repo) ==
    {BuildFileTree(ListingOf(RepositoryOf(repo)), ListingOf(RepositoryOf(repo))[RootPath], f) :
        f \in SUBSET {P_src}}

\* C37: in every reachable state with appState = file-browser the held
\* file tree is a tree built for the held selected repository, also when
\* two selections were started before the first tree was built.
C37_TreeIsOfSelectedRepo ==
    appState = "file-browser" =>
        /\ selectedRepo \in RepositoryNames
        /\ files \in TreesOf(selectedRepo)

\* C38: a repository selection whose root listing fails leaves the session
\* as it was before the attempt: appState and the file tree and selection
\* do not change, no repository is held as selected, and the loading flag
\* is false again.
C38_FailedSelectionLeavesNoTrace ==
    [][(lastOp'.name = "handleRepositorySelect.failed" /\ Len(repoLoads') < Len(repoLoads)) =>
          /\ appState' = appState
          /\ selectedRepo' = NoRepo
          /\ UNCHANGED <<files, selectedFiles>>
          /\ isLoadingFiles' = FALSE]_vars

\* the place of a stage in the workflow
StageRank(stage) ==
    CASE stage = "landing" -> 0
      [] stage = "auth" -> 1
      [] stage = "repo-select" -> 2
      [] stage = "file-browser" -> 3
      [] stage = "test-generation" -> 4
      [] stage \in {"test-management", "pr-creation"} -> 5

\* C39: back is defined for every non-landing state: each back moves
\* appState to an earlier stage, so that repeated back reaches landing in
\* finitely many steps.
C39_BackMovesToAnEarlierStage ==
    [][(lastOp'.name = "handleBack" /\ lastOp' # lastOp) =>
          /\ lastOp'.from = appState
          /\ StageRank(appState') < StageRank(appState)]_vars

\* the replies whose first object carries a filePath of its own
CarriesOwnPath(reply) ==
    /\ reply.kind = "text"
    /\ \E i \in 1..Len(reply.text) :
          reply.text[i].tok = "object" /\ Truthy(reply.text[i].filePath)

\* C40: every summary produced for an input file carries that file's path
\* as its filePath, whether it was parsed from the reply or is the
\* fallback, and whatever filePath the objects of the reply carry; the
\* summaries the component stores are those, with the paths of its files.
C40_SummaryCarriesPathOfItsFile ==
    /\ sumRun.running =>
          \A k \in 1..Len(sumRun.replies) :
              \A j \in 1..Len(SummariesOfFile(k)) :
                  /\ SummariesOfFile(k)[j].filePath = sumRun.files[k].path
                  /\ SummariesOfFile(k)[j].filePath # P_other_ts
    /\ \A s \in 1..Len(testSummaries) :
          \E f \in 1..Len(genFiles) : testSummaries[s].filePath = genFiles[f].path

C40_Witness ==
    /\ SummariesAtReturn
    /\ apiKey
    /\ Len(sumRun.files) = 2
    /\ sumRun.replies[1] = RText(TextInProse)
    /\ CarriesOwnPath(sumRun.replies[1])
    /\ sumRun.replies[2] = RFail
    /\ SummariesOfFile(1)[2].id[1] = "gemini"
    /\ SummariesOfFile(1)[2].filePath = sumRun.files[1].path
    /\ SummariesOfFile(2)[1].id[1] = "fallback"
    /\ SummariesOfFile(2)[1].filePath = sumRun.files[2].path

====
